---- MODULE Spec2Model ----
(***************************************************************************)
(* Model of the warehouse-write coordination of the financial ETL          *)
(* pipeline: the Redis-backed DistributedLock (etl/utils/                  *)
(* distributed_lock.py), the WarehouseLoader write policies (etl/loaders/  *)
(* warehouse_loader.py) and the stage lifecycle wrappers (etl/loaders/     *)
(* base.py, etl/transformers/base.py, etl/extractors/base.py).             *)
(*                                                                         *)
(* Time is a discrete clock `now`; one unit is one retry interval.         *)
(***************************************************************************)
EXTENDS Integers, Sequences, FiniteSets, TLC

(* ------------------------------ bounds -------------------------------- *)

\* last instant of the clock
MaxTime == 4

\* lease duration (DistributedLock.timeout, 300 s by default) in clock units
Lease == 2

\* largest explicit timeout a caller passes to acquire()/context()
MaxTimeoutArg == 1

\* largest number of rows in a dataset handed to a write
MaxDfRows == 1

\* largest number of rows a target table holds
MaxRows == 2

\* largest number of invocations of one stage instance
MaxCalls == 2

(* --------------------------- program constants ------------------------ *)

\* DistributedLock.__init__(retry_interval=1)
RetryInterval == 1

\* the value of an absent `timeout` argument (Python None)
NoTimeout == -1

\* value read under a key that does not exist (Redis nil)
NoToken == 0

\* concurrently running pipeline runs; each owns one DistributedLock handle
Procs == {1, 2}

\* warehouse targets
Tables == {1}

\* a missing table_name argument (None or empty string)
NoTable == 0

\* self.lock_name = f"etl:lock:{lock_name}" with the loader's default
\* lock_name = f"load_{table_name}": one key per target, injectively
LockNameOf(t) == t

\* a lock_name a caller passes to load() explicitly, overriding the default
OtherName == 2

\* the keys of the Redis store
LockNames == {LockNameOf(t) : t \in Tables} \cup {OtherName}

\* the lock name every directly used handle was constructed with
HandleName == LockNameOf(1)

\* self.lock_id = str(uuid.uuid4()) of the handle a process holds directly
HandleToken(p) == p

\* lock_id of the fresh DistributedLock that WarehouseLoader.load constructs
LoadToken(p) == 10 + p

TimeoutArgs == {NoTimeout} \cup (0..MaxTimeoutArg)

VARIABLES
    now,     \* time.time() / the Redis server clock
    store,   \* Redis: lock key -> [val: owner token, exp: expiry instant]
    table,   \* warehouse: target -> number of rows
    proc,    \* per pipeline run: position and locals of the running call
    stage,   \* one stage instance (extractor, transformer or loader)
    rel,     \* warehouse relation: the committed values of its unique key
    sess,    \* per pipeline run: its DatabaseConnection operation
    val,     \* one validator call: inputs, result, outcome
    run,     \* one DAG run of financial_etl_pipeline
    s3       \* the staging bucket and the S3Handler call in progress

vars == <<now, store, table, proc, stage, rel, sess, val, run, s3>>

\* the state of the lock and the warehouse
lockVars == <<store, table, proc>>

\* the database sessions, the validator call and the DAG run
dbVars == <<rel, sess>>

unitVars == <<dbVars, val, run, s3>>

\* the state outside the lock and the warehouse
stageVars == <<stage, unitVars>>

(* ------------------------------ helpers ------------------------------- *)

\* max_wait = timeout or self.timeout : None and 0 are both falsy
MaxWaitOf(t) == IF t = NoTimeout \/ t = 0 THEN Lease ELSE t

\* the key exists (SET ... EX removes it once the expiry instant is reached)
Present(n) == store[n].val # NoToken

\* pc, op .. ret are the locals and the result of the call in progress;
\* tries (SET attempts made), acq_at (instant at which acquire() returned)
\* and absent (the key did not exist when a non-blocking acquire() began)
\* record its history
IdleProc ==
    [pc |-> "idle", op |-> "none", name |-> 0, token |-> NoToken, target |-> 0,
     blocking |-> FALSE, timeout |-> NoTimeout, max_wait |-> 0,
     start_time |-> 0, wake |-> 0, tries |-> 0,
     acquired |-> "none", released |-> "none", exc |-> "none",
     use_lock |-> FALSE, rows |-> 0, ret |-> 0, acq_at |-> 0,
     absent |-> FALSE]

(* -------------------------- stage instances --------------------------- *)

\* BaseExtractor, BaseTransformer, BaseLoader
Kinds == {"extractor", "transformer", "loader"}

\* self.start_time = None / self.end_time = None
NoTime == -1

\* exceptions a core operation (extract / transform / load) may raise
CoreErrors == {"ErrA", "ErrB"}

\* __init__: the count is 0, both timestamps are None.
\* inv numbers the invocations of execute(); start_inv / end_inv record
\* which invocation stamped start_time / end_time and the count; thrown is
\* the exception the core operation raised in the current invocation.
NewStage(k) ==
    [kind |-> k, pc |-> "idle", start_time |-> NoTime, end_time |-> NoTime,
     count |-> 0, result |-> 0, meta |-> FALSE, exc |-> "none", key |-> "",
     inv |-> 0, start_inv |-> 0, end_inv |-> 0, thrown |-> "none"]

\* batch_size=None: the caller supplies no batch size
NoBatchSize == 0

\* no connection is checked out
NoConn == 0

\* cursor.rowcount before any statement ran
NoRowcount == -1

\* a pipeline run with no database operation in progress. pages is what
\* execute_batch has sent so far, pending the keys its transaction wrote;
\* stmt is the statement of execute_update, deleted and updated the keys
\* whose rows its transaction deleted and updated;
\* commits, rollbacks and closes count the calls made on the connection
IdleSess ==
    [pc |-> "idle", op |-> "none", conn |-> NoConn, rows |-> 0,
     batch_size |-> 0, cc |-> {}, todo |-> <<>>, pages |-> <<>>,
     pending |-> {}, stmt |-> "none", deleted |-> {}, updated |-> {},
     rowcount |-> NoRowcount, body_exc |-> "none",
     commits |-> 0, rollbacks |-> 0, closes |-> 0, committed |-> FALSE,
     exc |-> "none", ret |-> 0]

\* no validator call is in progress
IdleVal == [pc |-> "idle"]

\* the tasks of the DAG between the start and end markers, in the order
\* of their dependencies
Stages == <<"extract", "validate", "transform", "load">>

\* default_args['retries']
Retries == 3

\* no DAG run is active. state and tries are the state and the number of
\* ended attempts of each task instance; rows is the size of the staged
\* dataset, writes counts the warehouse writes the load task started,
\* written the rows they appended, log is metadata.etl_run_log
IdleRun ==
    [pc |-> "idle", state |-> [i \in DOMAIN Stages |-> "none"],
     tries |-> [i \in DOMAIN Stages |-> 0], rows |-> 0,
     writes |-> 0, written |-> 0, log |-> <<>>]

\* an empty bucket, nothing staged, no S3Handler call in progress:
\* objects maps the keys of the bucket to what is stored under them,
\* uploads the keys upload_dataframe was given to what it was given
IdleS3 ==
    [objects |-> [k \in {} |-> 0], uploads |-> [k \in {} |-> 0],
     call |-> [pc |-> "idle"]]

\* nothing runs outside the lock, the loader and the stage
UnitIdle ==
    /\ rel = {}
    /\ sess = [p \in Procs |-> IdleSess]
    /\ val = IdleVal
    /\ run = IdleRun
    /\ s3 = IdleS3

Init ==
    /\ now = 0
    /\ store = [n \in LockNames |-> [val |-> NoToken, exp |-> 0]]
    /\ table = [t \in Tables |-> 0]
    /\ proc = [p \in Procs |-> IdleProc]
    /\ stage = NewStage("loader")
    /\ UnitIdle

\* the same, for a stage instance of any kind
StageInit ==
    /\ now = 0
    /\ store = [n \in LockNames |-> [val |-> NoToken, exp |-> 0]]
    /\ table = [t \in Tables |-> 0]
    /\ proc = [p \in Procs |-> IdleProc]
    /\ stage \in {NewStage(k) : k \in Kinds}
    /\ UnitIdle

\* a call returns or raises: its locals (start_time, the sleep deadline) die,
\* its result (return value or exception) is what the caller sees
Done(r) == [r EXCEPT !.pc = "done", !.start_time = 0, !.wake = 0]

\* the caller has consumed the result and is ready for its next call
Return(p) ==
    /\ proc[p].pc = "done"
    /\ proc' = [proc EXCEPT ![p] = IdleProc]
    /\ UNCHANGED <<now, store, table, stageVars>>

(* ---------------------- DistributedLock.acquire ----------------------- *)

\* entry of acquire(blocking, timeout): start_time = time.time(),
\* max_wait = timeout or self.timeout, then the first loop iteration
EnterAcquire(opname, n, tok, b, t) ==
    [IdleProc EXCEPT !.pc = "set", !.op = opname, !.name = n, !.token = tok,
                     !.blocking = b, !.timeout = t, !.max_wait = MaxWaitOf(t),
                     !.start_time = now,
                     !.absent = (opname = "acquire" /\ ~b /\ ~Present(n))]

\* a load() that enters _perform_load without looking at acquire's result
MutAfterAcquireUnchecked(r, acq) ==
    LET a == IF acq THEN "true" ELSE "false" IN
    IF r.op = "load"
    THEN [r EXCEPT !.pc = "db", !.acquired = a, !.acq_at = now]
    ELSE IF r.op = "acquire" \/ ~acq
    THEN Done([r EXCEPT !.acquired = a, !.acq_at = now,
                        !.exc = IF r.op = "acquire" THEN "none"
                                                    ELSE "RuntimeError"])
    ELSE [r EXCEPT !.pc = "body", !.acquired = a, !.acq_at = now]

\* what the caller of acquire() does with its result:
\*   acquire()   returns it;
\*   context()   raises RuntimeError when it is false, else yields;
\*   load()      runs _perform_load inside context();
\*   __enter__   discards it and returns self.
AfterAcquire(r, acq) ==
    LET a == IF acq THEN "true" ELSE "false" IN
    CASE r.op = "acquire" ->
            Done([r EXCEPT !.acquired = a, !.acq_at = now])
      [] r.op = "context" ->
            IF acq THEN [r EXCEPT !.pc = "body", !.acquired = a,
                                  !.acq_at = now]
                   ELSE Done([r EXCEPT !.acquired = a, !.acq_at = now,
                                       !.exc = "RuntimeError"])
      [] r.op = "load" ->
            IF acq THEN [r EXCEPT !.pc = "db", !.acquired = a,
                                  !.acq_at = now]
                   ELSE Done([r EXCEPT !.acquired = a, !.acq_at = now,
                                       !.exc = "RuntimeError"])
      [] r.op = "with" ->
            [r EXCEPT !.pc = "body", !.acquired = a, !.acq_at = now]

\* a SET without nx=True: it overwrites whatever is stored
MutSetNoNX(n) == TRUE

\* nx=True: the SET takes effect only when the key does not exist
SetIfAbsent(n) == ~Present(n)

\* a key that expires before the lease is over
MutLeaseExpiryShort == now + 1

\* ex=self.timeout: the key set now expires one lease from now
LeaseExpiry == now + Lease

\* a mutation: a re-entrant lock, whose holder acquires again and thereby
\* renews its lease
MutAcquireSetReentrant(p) ==
    LET r == proc[p]
        n == r.name IN
    /\ r.pc = "set"
    /\ IF SetIfAbsent(n) \/ store[n].val = r.token
       THEN /\ store' = [store EXCEPT ![n] = [val |-> r.token,
                                              exp |-> LeaseExpiry]]
            /\ proc' = [proc EXCEPT ![p] =
                   AfterAcquire([r EXCEPT !.tries = r.tries + 1], TRUE)]
       ELSE /\ store' = store
            /\ proc' = [proc EXCEPT ![p] =
                   IF ~r.blocking
                   THEN AfterAcquire([r EXCEPT !.tries = r.tries + 1], FALSE)
                   ELSE [r EXCEPT !.pc = "check", !.tries = r.tries + 1]]
    /\ UNCHANGED <<now, table, stageVars>>

\* redis_client.set(lock_name, lock_id, nx=True, ex=self.timeout), atomic,
\* followed by `if acquired: return True` and `if not blocking: return False`
AcquireSet(p) ==
    LET r == proc[p]
        n == r.name IN
    /\ r.pc = "set"
    /\ IF SetIfAbsent(n)
       THEN /\ store' = [store EXCEPT ![n] = [val |-> r.token,
                                              exp |-> LeaseExpiry]]
            /\ proc' = [proc EXCEPT ![p] =
                   AfterAcquire([r EXCEPT !.tries = r.tries + 1], TRUE)]
       ELSE /\ store' = store
            /\ proc' = [proc EXCEPT ![p] =
                   IF ~r.blocking
                   THEN AfterAcquire([r EXCEPT !.tries = r.tries + 1], FALSE)
                   ELSE [r EXCEPT !.pc = "check", !.tries = r.tries + 1]]
    /\ UNCHANGED <<now, table, stageVars>>

\* a retry loop without the timeout test
MutAcquireCheckNoTimeout(p) ==
    LET r == proc[p] IN
    /\ r.pc = "check"
    /\ proc' = [proc EXCEPT ![p] =
           [r EXCEPT !.pc = "sleep", !.wake = now + RetryInterval]]
    /\ UNCHANGED <<now, store, table, stageVars>>

\* `if time.time() - start_time >= max_wait: return False`, else
\* time.sleep(self.retry_interval)
AcquireCheck(p) ==
    LET r == proc[p] IN
    /\ r.pc = "check"
    /\ proc' = [proc EXCEPT ![p] =
           IF now - r.start_time >= r.max_wait
           THEN AfterAcquire(r, FALSE)
           ELSE [r EXCEPT !.pc = "sleep", !.wake = now + RetryInterval]]
    /\ UNCHANGED <<now, store, table, stageVars>>

\* time.sleep returns once the retry interval has elapsed; next iteration
AcquireWake(p) ==
    LET r == proc[p] IN
    /\ r.pc = "sleep"
    /\ now >= r.wake
    /\ proc' = [proc EXCEPT ![p] = [r EXCEPT !.pc = "set"]]
    /\ UNCHANGED <<now, store, table, stageVars>>

(* ---------------------- DistributedLock.release ----------------------- *)

\* a release that deletes the key without comparing the stored value
MutReleaseAnyOwner(n, tok) ==
    [store EXCEPT ![n] = [val |-> NoToken, exp |-> 0]]

\* the Lua script: delete the key only if its value equals ARGV[1]
ReleaseStore(n, tok) ==
    IF store[n].val = tok
    THEN [store EXCEPT ![n] = [val |-> NoToken, exp |-> 0]]
    ELSE store

\* a mutation: release() reports success whatever the script returned
MutReleaseResultTrue(n, tok) == "true"

\* bool(released): 1 when the key was deleted, 0 otherwise
ReleaseResult(n, tok) == IF store[n].val = tok THEN "true" ELSE "false"

(* ----------------------------- the clock ------------------------------ *)

\* one unit of time passes; Redis drops every key whose expiry is reached
Tick ==
    /\ now < MaxTime
    /\ now' = now + 1
    /\ store' = [n \in LockNames |->
                    IF store[n].val # NoToken /\ store[n].exp <= now + 1
                    THEN [val |-> NoToken, exp |-> 0]
                    ELSE store[n]]
    /\ UNCHANGED <<table, proc, stageVars>>

\* a blocking wait started now can run to its timeout before the clock ends
CanWait(t) == now + MaxWaitOf(t) + RetryInterval <= MaxTime

(* --------------------- calls on a handle held directly ---------------- *)

\* lock.acquire(blocking=b, timeout=t)
CallAcquire(p) ==
    /\ proc[p].pc = "idle"
    /\ \E b \in BOOLEAN, t \in TimeoutArgs :
          /\ b => CanWait(t)
          /\ proc' = [proc EXCEPT ![p] =
                 EnterAcquire("acquire", HandleName, HandleToken(p), b, t)]
    /\ UNCHANGED <<now, store, table, stageVars>>

\* lock.release()
CallRelease(p) ==
    /\ proc[p].pc = "idle"
    /\ store' = ReleaseStore(HandleName, HandleToken(p))
    /\ proc' = [proc EXCEPT ![p] =
           [IdleProc EXCEPT !.pc = "done", !.op = "release",
                            !.name = HandleName,
                            !.token = HandleToken(p),
                            !.released = ReleaseResult(HandleName,
                                                       HandleToken(p))]]
    /\ UNCHANGED <<now, table, stageVars>>

\* with lock.context(blocking=b, timeout=t): <body>
CallContext(p) ==
    /\ proc[p].pc = "idle"
    /\ \E b \in BOOLEAN, t \in TimeoutArgs :
          /\ b => CanWait(t)
          /\ proc' = [proc EXCEPT ![p] =
                 EnterAcquire("context", HandleName, HandleToken(p), b, t)]
    /\ UNCHANGED <<now, store, table, stageVars>>

\* with lock: <body>      (__enter__ calls self.acquire() with its defaults)
CallWith(p) ==
    /\ proc[p].pc = "idle"
    /\ CanWait(NoTimeout)
    /\ proc' = [proc EXCEPT ![p] =
           EnterAcquire("with", HandleName, HandleToken(p), TRUE, NoTimeout)]
    /\ UNCHANGED <<now, store, table, stageVars>>

\* the protected body ends, normally or by raising; control reaches the
\* `finally:` of context() or __exit__
BodyEnd(p) ==
    LET r == proc[p] IN
    /\ r.pc = "body"
    /\ \E e \in {"none", "BodyError"} :
          proc' = [proc EXCEPT ![p] = [r EXCEPT !.pc = "exit", !.exc = e]]
    /\ UNCHANGED <<now, store, table, stageVars>>

\* a scope that releases after a normal end of the body only
MutScopeExitOnSuccessOnly(p) ==
    LET r == proc[p] IN
    /\ r.pc = "exit"
    /\ store' = IF r.exc = "none" THEN ReleaseStore(r.name, r.token)
                                  ELSE store
    /\ proc' = [proc EXCEPT ![p] =
           Done([r EXCEPT !.released =
                    IF r.exc = "none" THEN ReleaseResult(r.name, r.token)
                                      ELSE "none"])]
    /\ UNCHANGED <<now, table, stageVars>>

\* `finally: self.release()` of context(), and __exit__ (which returns
\* False, so an exception of the body is not suppressed)
ScopeExit(p) ==
    LET r == proc[p] IN
    /\ r.pc = "exit"
    /\ store' = ReleaseStore(r.name, r.token)
    /\ proc' = [proc EXCEPT ![p] =
           Done([r EXCEPT !.released = ReleaseResult(r.name, r.token)])]
    /\ UNCHANGED <<now, table, stageVars>>

(* --------------------------- WarehouseLoader -------------------------- *)

DfRows == 1..MaxDfRows

\* WarehouseLoader.load(df, table_name=t, use_lock=ul, lock_name=ln):
\* ValueError without a table_name; with use_lock the write runs inside
\* DistributedLock(lock_name).context(), blocking, with the default timeout
CallLoad(p) ==
    /\ proc[p].pc = "idle"
    /\ \E t \in Tables \cup {NoTable}, ul \in BOOLEAN, n \in DfRows,
          ln \in LockNames :
          IF t = NoTable
          THEN /\ ul /\ ln = OtherName /\ n = 1
               /\ proc' = [proc EXCEPT ![p] =
                      [IdleProc EXCEPT !.pc = "done", !.op = "load",
                                       !.exc = "ValueError"]]
          ELSE IF ul
          THEN /\ CanWait(NoTimeout)
               /\ proc' = [proc EXCEPT ![p] =
                      [EnterAcquire("load", ln, LoadToken(p),
                                    TRUE, NoTimeout)
                         EXCEPT !.target = t, !.use_lock = TRUE, !.rows = n]]
          ELSE /\ ln = LockNameOf(t)
               /\ proc' = [proc EXCEPT ![p] =
                      [IdleProc EXCEPT !.pc = "db", !.op = "load",
                                       !.target = t, !.rows = n]]
    /\ UNCHANGED <<now, store, table, stageVars>>

\* WarehouseLoader.bulk_insert / upsert: the statements run on a pooled
\* connection; no lock is taken
CallUnlockedWrite(p) ==
    /\ proc[p].pc = "idle"
    /\ \E o \in {"bulk_insert", "upsert"}, t \in Tables, n \in DfRows :
          proc' = [proc EXCEPT ![p] =
              [IdleProc EXCEPT !.pc = "db", !.op = o, !.target = t,
                               !.rows = n]]
    /\ UNCHANGED <<now, store, table, stageVars>>

\* WarehouseLoader.truncate_and_load: TRUNCATE on its own connection, then
\* load_dataframe(if_exists='append'); no lock is taken
CallTruncateAndLoad(p) ==
    /\ proc[p].pc = "idle"
    /\ \E t \in Tables, n \in DfRows :
          proc' = [proc EXCEPT ![p] =
              [IdleProc EXCEPT !.pc = "trunc", !.op = "truncate_and_load",
                               !.target = t, !.rows = n]]
    /\ UNCHANGED <<now, store, table, stageVars>>

\* a mutation: the TRUNCATE stays uncommitted until the load has ended
MutTruncateEndDeferred(p) ==
    LET r == proc[p] IN
    /\ r.pc = "trunc"
    /\ \/ /\ table' = table
          /\ proc' = [proc EXCEPT ![p] = [r EXCEPT !.pc = "db"]]
       \/ /\ table' = table
          /\ proc' = [proc EXCEPT ![p] =
                 Done([r EXCEPT !.exc = "DbError"])]
    /\ UNCHANGED <<now, store, stageVars>>

\* the TRUNCATE statement commits (get_connection commits on success) or
\* fails, in which case the error is logged and re-raised
TruncateEnd(p) ==
    LET r == proc[p] IN
    /\ r.pc = "trunc"
    /\ \/ /\ table' = [table EXCEPT ![r.target] = 0]
          /\ proc' = [proc EXCEPT ![p] = [r EXCEPT !.pc = "db"]]
       \/ /\ table' = table
          /\ proc' = [proc EXCEPT ![p] =
                 Done([r EXCEPT !.exc = "DbError"])]
    /\ UNCHANGED <<now, store, stageVars>>

\* where control goes when the database statements of a write are over:
\* into the `finally:` of context() for a locked load, else to the caller
AfterDb(r) ==
    IF r.op = "load" /\ r.use_lock THEN [r EXCEPT !.pc = "exit"] ELSE Done(r)

\* what a write of `rows` rows that added k rows returns: load_dataframe
\* returns len(df); bulk_insert and upsert return cursor.rowcount, which
\* after execute_batch is the count of the last statement alone
WriteReturns(op, rows, k) ==
    IF op \in {"load", "truncate_and_load"} THEN {rows}
    ELSE IF op = "upsert" THEN {1}
    ELSE {c \in {0, 1} : (k = 0 => c = 0) /\ (k = rows => c = 1)}

\* the database statements of a write end: they commit k new rows and the
\* write returns its count, or they fail and the error is re-raised.
\* load_dataframe inserts every row of df and returns len(df); the
\* ON CONFLICT statements of bulk_insert / upsert may add fewer rows.
DbEnd(p) ==
    LET r == proc[p]
        t == r.target IN
    /\ r.pc = "db"
    /\ \/ \E k \in 0..r.rows :
             /\ r.op \in {"load", "truncate_and_load"} => k = r.rows
             /\ table[t] + k <= MaxRows
             /\ table' = [table EXCEPT ![t] = table[t] + k]
             /\ \E c \in WriteReturns(r.op, r.rows, k) :
                   proc' = [proc EXCEPT ![p] =
                       AfterDb([r EXCEPT !.ret = c])]
       \/ /\ table' = table
          /\ proc' = [proc EXCEPT ![p] =
                 AfterDb([r EXCEPT !.exc = "DbError"])]
    /\ UNCHANGED <<now, store, stageVars>>

(* ------------------------- DatabaseConnection ------------------------- *)

\* most rows in the data of one bulk_insert / upsert
MaxBatchRows == 3

\* largest batch_size a caller supplies
MaxBatchSize == 2

\* config.etl.batch_size (ETL_BATCH_SIZE)
EtlBatchSize == 10000

\* connections the pool hands out
Conns == {1, 2}

\* the columns of the dataset given to upsert
UpsertColumns == {"id", "v"}

\* the columns of the relation's unique index
KeyColumns == {"id"}

\* the rows of an n-row dataset, each named by its key
DataOf(n) == [i \in 1..n |-> i]

\* WarehouseLoader.bulk_insert: if not batch_size: batch_size =
\* config.etl.batch_size (None and 0 are both falsy)
LoaderBatchSize(bs) == IF bs = NoBatchSize THEN EtlBatchSize ELSE bs

\* execute_batch cuts the argument list into consecutive pages of
\* page_size rows, the last one possibly shorter
RECURSIVE Paginate(_, _)
Paginate(values, page_size) ==
    IF values = <<>> THEN <<>>
    ELSE IF Len(values) <= page_size THEN <<values>>
    ELSE <<SubSeq(values, 1, page_size)>>
            \o Paginate(SubSeq(values, page_size + 1, Len(values)),
                        page_size)

\* the statements of one page run in order in one cur.execute();
\* INSERT ... ON CONFLICT DO NOTHING adds a row unless its key is visible
\* to the transaction; cursor.rowcount is the count of the last statement
InsertPage(page, visible) ==
    LET Added(i) ==
            page[i] \notin (visible \cup {page[j] : j \in 1..(i - 1)}) IN
    [keys |-> {page[i] : i \in 1..Len(page)} \ visible,
     updated |-> {},
     rowcount |-> IF Added(Len(page)) THEN 1 ELSE 0]

\* INSERT ... ON CONFLICT (cc) DO UPDATE SET ...: every row is inserted or
\* updated, so each statement affects one row. A row whose key is
\* committed is updated inside the transaction (the row it inserted itself
\* stays its own), the others are inserted.
UpsertPage(page, visible, committed) ==
    [keys |-> {page[i] : i \in 1..Len(page)} \ visible,
     updated |-> {page[i] : i \in 1..Len(page)} \cap committed,
     rowcount |-> 1]

\* upsert builds its statement from conflict_columns as given and from
\* update_columns = the other columns; the server rejects an empty
\* ON CONFLICT () or SET list, and a conflict target without a unique index
UpsertError(cc) ==
    IF cc = {} \/ UpsertColumns \ cc = {} THEN "SyntaxError"
    ELSE IF cc # KeyColumns THEN "InvalidColumnReference"
    ELSE "none"

\* the connections checked out and not yet closed
BusyConns == {sess[q].conn : q \in {r \in Procs : sess[r].pc = "body"}}

\* bulk_insert(data, table_name, batch_size): `if not data: return 0`,
\* else the rows go to execute_batch on a connection of get_connection()
EnterBulkInsert(bs, n, c) ==
    LET s == [IdleSess EXCEPT !.op = "bulk_insert", !.rows = n,
                              !.batch_size = LoaderBatchSize(bs)] IN
    IF n = 0 THEN [s EXCEPT !.pc = "done", !.ret = 0]
    ELSE [s EXCEPT !.pc = "body", !.conn = c,
                   !.todo = Paginate(DataOf(n), s.batch_size)]

CallBulkInsert(p) ==
    /\ sess[p].pc = "idle"
    /\ \E bs \in {NoBatchSize} \cup (1..MaxBatchSize),
          n \in 0..MaxBatchRows, c \in Conns \ BusyConns :
          sess' = [sess EXCEPT ![p] = EnterBulkInsert(bs, n, c)]
    /\ UNCHANGED <<now, lockVars, stage, rel, val, run, s3>>

\* upsert(df, table_name, conflict_columns): the statement is built from
\* the arguments as they are and handed to execute_batch on a connection
\* of get_connection(), page_size = config.etl.batch_size
EnterUpsert(cc, n, c) ==
    [IdleSess EXCEPT !.pc = "body", !.op = "upsert", !.rows = n,
                     !.cc = cc, !.batch_size = EtlBatchSize, !.conn = c,
                     !.todo = Paginate(DataOf(n), EtlBatchSize)]

CallUpsert(p) ==
    /\ sess[p].pc = "idle"
    /\ \E cc \in SUBSET UpsertColumns, n \in 0..MaxBatchRows,
          c \in Conns \ BusyConns :
          sess' = [sess EXCEPT ![p] = EnterUpsert(cc, n, c)]
    /\ UNCHANGED <<now, lockVars, stage, rel, val, run, s3>>

\* the statements execute_update is given, each on the row of one key
Statements == {"INSERT", "UPDATE", "DELETE"}

\* the keys of those rows: one that the datasets hold too, one that is new
StatementKeys == {1, MaxBatchRows + 1}

\* execute_update(query, params): the statement goes to cursor.execute on
\* a connection of get_connection()
EnterExecuteUpdate(stmt, k, c) ==
    [IdleSess EXCEPT !.pc = "body", !.op = "execute_update", !.rows = 1,
                     !.stmt = stmt, !.conn = c, !.todo = <<<<k>>>>]

CallExecuteUpdate(p) ==
    /\ sess[p].pc = "idle"
    /\ \E stmt \in Statements, k \in StatementKeys,
          c \in Conns \ BusyConns :
          sess' = [sess EXCEPT ![p] = EnterExecuteUpdate(stmt, k, c)]
    /\ UNCHANGED <<now, lockVars, stage, rel, val, run, s3>>

\* the keys whose rows the open transaction of session s has locked
Touched(s) == s.pending \cup s.deleted \cup s.updated

\* what the server answers to one statement on the row of key k, visible
\* being the keys the transaction sees: an INSERT of a key that is there
\* violates the unique index, an UPDATE or DELETE affects the row if it
\* is there
StatementResult(stmt, k, visible) ==
    LET res == [exc |-> "none", keys |-> {}, deleted |-> {},
                updated |-> {}, rowcount |-> 0]
        hit == {k} \cap visible IN
    CASE stmt = "INSERT" ->
            IF k \in visible
            THEN [res EXCEPT !.exc = "UniqueViolation",
                             !.rowcount = NoRowcount]
            ELSE [res EXCEPT !.keys = {k}, !.rowcount = 1]
      [] stmt = "UPDATE" ->
            [res EXCEPT !.updated = hit, !.rowcount = Cardinality(hit)]
      [] stmt = "DELETE" ->
            [res EXCEPT !.deleted = hit, !.rowcount = Cardinality(hit)]

\* cursor.execute(query, params): the statement takes effect inside the
\* transaction, or the call raises. A statement on a row that another
\* open transaction has locked waits for that transaction; the row an
\* open transaction has inserted is not there for an UPDATE or DELETE
\* of another.
SendStatement(p) ==
    LET s == sess[p]
        k == Head(s.todo)[1]
        visible == (rel \cup s.pending) \ s.deleted
        res == StatementResult(s.stmt, k, visible)
        sent == [s EXCEPT !.todo = Tail(s.todo),
                          !.pages = Append(s.pages, Head(s.todo))] IN
    /\ s.pc = "body" /\ s.op = "execute_update"
    /\ s.body_exc = "none" /\ s.todo # <<>>
    /\ \/ /\ \A q \in Procs \ {p} :
                sess[q].pc = "body" =>
                   k \notin IF s.stmt = "INSERT" THEN Touched(sess[q])
                            ELSE Touched(sess[q]) \cap rel
          /\ sess' = [sess EXCEPT ![p] =
                 IF res.exc = "none"
                 THEN [sent EXCEPT !.pending = s.pending \cup res.keys,
                                   !.deleted = s.deleted \cup res.deleted,
                                   !.updated = s.updated \cup res.updated,
                                   !.rowcount = res.rowcount]
                 ELSE [sent EXCEPT !.body_exc = res.exc]]
       \/ sess' = [sess EXCEPT ![p] = [sent EXCEPT !.body_exc = "DbError"]]
    /\ UNCHANGED <<now, lockVars, stage, rel, val, run, s3>>

\* the error the server answers to the statement of session s
StatementError(s) == IF s.op = "upsert" THEN UpsertError(s.cc) ELSE "none"

\* execute_batch sends the next page: the statements take effect inside the
\* transaction, or the call raises. A row whose key another open
\* transaction has written waits for that transaction.
SendPage(p) ==
    LET s == sess[p]
        page == Head(s.todo)
        visible == rel \cup s.pending
        res == IF s.op = "upsert" THEN UpsertPage(page, visible, rel)
                                  ELSE InsertPage(page, visible)
        sent == [s EXCEPT !.todo = Tail(s.todo),
                          !.pages = Append(s.pages, page)] IN
    /\ s.pc = "body" /\ s.op \in {"bulk_insert", "upsert"}
    /\ s.body_exc = "none" /\ s.todo # <<>>
    /\ \/ /\ StatementError(s) = "none"
          /\ \A q \in Procs \ {p} :
                sess[q].pc = "body" =>
                   Touched(sess[q]) \cap {page[i] : i \in 1..Len(page)} = {}
          /\ sess' = [sess EXCEPT ![p] =
                 [sent EXCEPT !.pending = s.pending \cup res.keys,
                              !.updated = s.updated \cup res.updated,
                              !.rowcount = res.rowcount]]
       \/ \E e \in IF StatementError(s) = "none" THEN {"DbError"}
                   ELSE {StatementError(s)} :
             sess' = [sess EXCEPT ![p] = [sent EXCEPT !.body_exc = e]]
    /\ UNCHANGED <<now, lockVars, stage, rel, val, run, s3>>

\* a mutation: an exit that commits in the `finally:`
MutOnExitCommitAlways(s, commit_ok) ==
    [s EXCEPT !.pc = "done", !.commits = 1, !.closes = 1,
              !.rollbacks = IF s.body_exc = "none" THEN 0 ELSE 1,
              !.committed = commit_ok,
              !.exc = s.body_exc,
              !.ret = s.rowcount]

\* get_connection after the yield: the body ended normally -> conn.commit();
\* an exception of the body or of commit() -> conn.rollback(), log,
\* re-raise; finally: conn.close()
OnExit(s, commit_ok) ==
    IF s.body_exc = "none" /\ commit_ok
    THEN [s EXCEPT !.pc = "done", !.commits = 1, !.closes = 1,
                   !.committed = TRUE, !.ret = s.rowcount]
    ELSE [s EXCEPT !.pc = "done", !.rollbacks = 1, !.closes = 1,
                   !.commits = IF s.body_exc = "none" THEN 1 ELSE 0,
                   !.exc = IF s.body_exc = "none" THEN "CommitError"
                                                  ELSE s.body_exc]

\* the body of the `with self.get_connection()` block is over
ConnExit(p) ==
    LET s == sess[p] IN
    /\ s.pc = "body"
    /\ s.todo = <<>> \/ s.body_exc # "none"
    /\ \E commit_ok \in BOOLEAN :
          /\ sess' = [sess EXCEPT ![p] = OnExit(s, commit_ok)]
          /\ rel' = IF sess'[p].committed
                    THEN (rel \cup s.pending) \ s.deleted ELSE rel
    /\ UNCHANGED <<now, lockVars, stage, val, run, s3>>

\* the caller has seen the result of the operation
SessReturn(p) ==
    /\ sess[p].pc = "done"
    /\ sess' = [sess EXCEPT ![p] = IdleSess]
    /\ UNCHANGED <<now, lockVars, stage, rel, val, run, s3>>

(* ------------------------------ datasets ------------------------------ *)

\* most rows of a dataset handed to a validator
MaxValRows == 2

\* a missing value (None / NaN)
Null == -1

\* a cell holding a string; the other cells are numbers
Str == 10

\* the numbers a cell may hold
NumCells == 0..2

\* the column names of the datasets
ColNames == {"a", "b"}

\* a column is its dtype and its cells; a float64 column holds numbers and
\* NaN, an object column holds strings
FloatColumns(n) ==
    {[dtype |-> "float64", vals |-> v] :
        v \in [1..n -> NumCells \cup {Null}]}

ObjectColumns(n) == {[dtype |-> "object", vals |-> [i \in 1..n |-> Str]]}

\* float64 columns whose cells only differ by being null or not
SparseColumns(n) ==
    {[dtype |-> "float64", vals |-> v] : v \in [1..n -> {Null, 1}]}

AnyColumns(n) == FloatColumns(n) \cup ObjectColumns(n)

\* str(dtype) of the columns a DataFrame can hold
DtypeNames ==
    {"int8", "int16", "int32", "int64",
     "uint8", "uint16", "uint32", "uint64",
     "Int8", "Int16", "Int32", "Int64",
     "UInt8", "UInt16", "UInt32", "UInt64",
     "float16", "float32", "float64", "Float32", "Float64",
     "object", "string", "bool", "boolean",
     "datetime64[ns]", "datetime64[ns, UTC]",
     "timedelta64[ns]", "category", "interval[int64, right]"}

\* columns of every dtype, without nulls
TypedColumns(n) ==
    {[dtype |-> d, vals |-> [i \in 1..n |-> 1]] : d \in DtypeNames}

\* the single-column DataFrames of every dtype
TypedFrames ==
    UNION {{[n |-> n, c |-> [col \in {"a"} |-> t]] : t \in TypedColumns(n)} :
              n \in 0..MaxValRows}

\* most rows of the longer single-column datasets
LongRows == 20

\* float64 columns of n rows of which the first k are null
LongColumns(n) ==
    {[dtype |-> "float64", vals |-> [i \in 1..n |-> IF i <= k THEN Null ELSE 1]] :
        k \in 0..n}

\* the single-column DataFrames of more than MaxValRows rows
LongFrames ==
    UNION {{[n |-> n, c |-> [col \in {"a"} |-> t]] : t \in LongColumns(n)} :
              n \in (MaxValRows + 1)..LongRows}

\* the DataFrames of up to MaxValRows rows whose columns are drawn from C:
\* n is len(df), c maps each column name to its column
Frames(C) ==
    UNION {{[n |-> n, c |-> f] : f \in [S -> C[n]]} :
              S \in SUBSET ColNames, n \in 0..MaxValRows}

Columns(df) == DOMAIN df.c

\* df[column].isnull().sum()
NullCount(col) == Cardinality({i \in DOMAIN col.vals : col.vals[i] = Null})

RECURSIVE SumOver(_, _)
SumOver(f, S) ==
    IF S = {} THEN 0
    ELSE LET x == CHOOSE y \in S : TRUE IN f[x] + SumOver(f, S \ {x})

\* df.isnull().sum().sum()
NullCells(df) == SumOver([col \in Columns(df) |-> NullCount(df.c[col])],
                         Columns(df))

(* ------------------------ binary64 arithmetic ------------------------- *)

\* Python's float is IEEE 754 binary64: every operation returns the exact
\* result rounded to 53 significant bits, ties to even. The numbers of the
\* validators are non-negative and far from the ends of the exponent
\* range. A float is m * 2^e with m a natural number below 2^53 written in
\* limbs of LimbBits bits, least significant first (no limbs: zero).

\* the significant bits of a binary64
Precision == 53

\* the bits of one limb
LimbBits == 15

LimbBase == 2 ^ LimbBits

\* the extra quotient bits a division computes before it rounds
DivShift == 5 * LimbBits

RECURSIVE BigOf(_)
BigOf(n) == IF n = 0 THEN <<>> ELSE <<n % LimbBase>> \o BigOf(n \div LimbBase)

\* without the zero limbs at the top
RECURSIVE BigTrim(_)
BigTrim(a) ==
    IF a # <<>> /\ a[Len(a)] = 0 THEN BigTrim(SubSeq(a, 1, Len(a) - 1))
    ELSE a

\* a * k + carry, for k below LimbBase
RECURSIVE BigMulSmall(_, _, _)
BigMulSmall(a, k, carry) ==
    IF a = <<>> THEN BigOf(carry)
    ELSE LET t == Head(a) * k + carry IN
         <<t % LimbBase>> \o BigMulSmall(Tail(a), k, t \div LimbBase)

RECURSIVE BigAdd(_, _, _)
BigAdd(a, b, carry) ==
    IF a = <<>> /\ b = <<>> THEN BigOf(carry)
    ELSE LET x == IF a = <<>> THEN 0 ELSE Head(a)
             y == IF b = <<>> THEN 0 ELSE Head(b)
             t == x + y + carry IN
         <<t % LimbBase>>
            \o BigAdd(IF a = <<>> THEN a ELSE Tail(a),
                      IF b = <<>> THEN b ELSE Tail(b), t \div LimbBase)

\* a - b - borrow, for a >= b + borrow
RECURSIVE BigSub(_, _, _)
BigSub(a, b, borrow) ==
    IF a = <<>> THEN <<>>
    ELSE LET y == IF b = <<>> THEN 0 ELSE Head(b)
             t == Head(a) - y - borrow IN
         <<t % LimbBase>>
            \o BigSub(Tail(a), IF b = <<>> THEN b ELSE Tail(b),
                      IF t < 0 THEN 1 ELSE 0)

\* -1, 0 or 1 as a is below, equal to or above b (both trimmed)
RECURSIVE BigCmp(_, _)
BigCmp(a, b) ==
    IF Len(a) # Len(b) THEN (IF Len(a) < Len(b) THEN -1 ELSE 1)
    ELSE IF a = <<>> THEN 0
    ELSE IF a[Len(a)] # b[Len(b)]
    THEN (IF a[Len(a)] < b[Len(b)] THEN -1 ELSE 1)
    ELSE BigCmp(SubSeq(a, 1, Len(a) - 1), SubSeq(b, 1, Len(b) - 1))

\* quotient and remainder of a by d, for d below 2 * LimbBase: the limbs
\* are taken from the top, rem is what the limbs above have left
RECURSIVE BigDivSmall(_, _, _)
BigDivSmall(a, d, rem) ==
    IF a = <<>> THEN [q |-> <<>>, r |-> rem]
    ELSE LET t == rem * LimbBase + a[Len(a)]
             rest == BigDivSmall(SubSeq(a, 1, Len(a) - 1), d, t % d) IN
         [q |-> Append(rest.q, t \div d), r |-> rest.r]

RECURSIVE BitsOf(_)
BitsOf(n) == IF n = 0 THEN 0 ELSE 1 + BitsOf(n \div 2)

\* the number of significant bits of a
BitLength(a) ==
    LET t == BigTrim(a) IN
    IF t = <<>> THEN 0 ELSE (Len(t) - 1) * LimbBits + BitsOf(t[Len(t)])

\* a * 2^s
ShiftLeft(a, s) ==
    [i \in 1..(s \div LimbBits) |-> 0]
       \o BigMulSmall(a, 2 ^ (s % LimbBits), 0)

\* a \div 2^s
ShiftRight(a, s) ==
    LET whole == s \div LimbBits IN
    IF whole >= Len(a) THEN <<>>
    ELSE BigTrim(BigDivSmall(SubSeq(a, whole + 1, Len(a)),
                             2 ^ (s % LimbBits), 0).q)

FloatZero == [m |-> <<>>, e |-> 0]

\* the binary64 nearest to m * 2^e (plus, when sticky, a non-zero amount
\* below the last bit of m): round to nearest, ties to even
RoundFloat(m, e, sticky) ==
    LET t == BigTrim(m)
        s == BitLength(t) - Precision IN
    IF s <= 0 THEN [m |-> t, e |-> e]
    ELSE LET q == ShiftRight(t, s)
             r == BigTrim(BigSub(t, ShiftLeft(q, s), 0))
             half == BigCmp(r, BigTrim(ShiftLeft(<<1>>, s - 1)))
             odd == q # <<>> /\ q[1] % 2 = 1
             up == half > 0 \/ (half = 0 /\ (sticky \/ odd)) IN
         [m |-> IF up THEN BigTrim(BigAdd(q, <<>>, 1)) ELSE q, e |-> e + s]

\* n / d for integers n >= 0 and d > 0 (true division)
FloatDiv(n, d) ==
    LET qr == BigDivSmall(ShiftLeft(BigOf(n), DivShift), d, 0) IN
    RoundFloat(qr.q, 0 - DivShift, qr.r # 0)

\* x * k and k * x for an integer k >= 0
FloatMulInt(x, k) == RoundFloat(BigMulSmall(x.m, k, 0), x.e, FALSE)

\* 1 + x and 1 - x, for 0 <= x <= 1 with x.e <= 0
OnePlus(x) == RoundFloat(BigAdd(ShiftLeft(<<1>>, 0 - x.e), x.m, 0), x.e, FALSE)

OneMinus(x) ==
    RoundFloat(BigSub(ShiftLeft(<<1>>, 0 - x.e), x.m, 0), x.e, FALSE)

\* -1, 0 or 1 as the float x is below, equal to or above the integer k
FloatCmpInt(x, k) ==
    IF k < 0 THEN 1
    ELSE IF x.e <= 0
    THEN BigCmp(BigTrim(x.m), BigTrim(ShiftLeft(BigOf(k), 0 - x.e)))
    ELSE BigCmp(BigTrim(ShiftLeft(x.m, x.e)), BigOf(k))

(* --------------------------- ValidationResult ------------------------- *)

Result(name, type, passed, passed_records, failed_records, total_records, error_details) ==
    [validator_name |-> name, validation_type |-> type, passed |-> passed,
     passed_records |-> passed_records, failed_records |-> failed_records,
     total_records |-> total_records, error_details |-> error_details]

\* no ValidationResult was constructed
NoResult == Result("none", "none", TRUE, 0, 0, 0, <<>>)

\* what evaluating the checks produced: a result, or the exception that
\* left validate() before a result existed
Computed(res) == [exc |-> "none", result |-> res]

Escaped(e) == [exc |-> e, result |-> NoResult]

(* ------------------------ CompletenessValidator ----------------------- *)

\* error_details = []; passed = True
NoErrors == [passed |-> TRUE, errs |-> <<>>]

\* a mutation: an entry is appended and passed is left as it was
MutFailKeepsPassed(acc, entry) ==
    [passed |-> acc.passed, errs |-> Append(acc.errs, entry)]

\* error_details.append({...}); passed = False
Fail(acc, entry) == [passed |-> FALSE, errs |-> Append(acc.errs, entry)]

\* if len(df) < min_row_count
CheckMinRowCount(acc, df, min_row_count) ==
    IF df.n < min_row_count
    THEN Fail(acc, [check |-> "min_row_count", expected |-> min_row_count,
                    actual |-> df.n])
    ELSE acc

\* a mutation: the dataset's columns that are not required
MutMissingColumnsReversed(df, required_columns) ==
    Columns(df) \ required_columns

\* set(required_columns) - set(df.columns)
MissingColumns(df, required_columns) == required_columns \ Columns(df)

\* if missing_columns
CheckRequiredColumns(acc, df, required_columns) ==
    LET missing_columns == MissingColumns(df, required_columns) IN
    IF missing_columns # {}
    THEN Fail(acc, [check |-> "required_columns",
                    missing_columns |-> missing_columns])
    ELSE acc

\* null_percentage = (null_count / len(df)) * 100 if len(df) > 0 else 0
NullPercentage(null_count, rows) ==
    IF rows > 0 THEN FloatMulInt(FloatDiv(null_count, rows), 100)
    ELSE FloatZero

\* null_percentage > null_threshold
NullPctExceeds(null_count, rows, null_threshold) ==
    FloatCmpInt(NullPercentage(null_count, rows), null_threshold) > 0

\* the columns entered into null_violations
NullViolations(df, null_threshold) ==
    {col \in Columns(df) :
        NullPctExceeds(NullCount(df.c[col]), df.n, null_threshold)}

\* if null_violations: one entry for all of them
CheckNullThreshold(acc, df, null_threshold) ==
    LET v == NullViolations(df, null_threshold) IN
    IF v # {}
    THEN Fail(acc, [check |-> "null_threshold",
                    violations |->
                       [col \in v |->
                           [null_count |-> NullCount(df.c[col]),
                            threshold |-> null_threshold]]])
    ELSE acc

\* CompletenessValidator.validate up to the construction of the result
CompletenessValidate(df, required_columns, null_threshold, min_row_count) ==
    LET acc == CheckNullThreshold(
                  CheckRequiredColumns(
                     CheckMinRowCount(NoErrors, df, min_row_count),
                     df, required_columns),
                  df, null_threshold)
        total_cells == IF Cardinality(Columns(df)) > 0
                       THEN df.n * Cardinality(Columns(df)) ELSE 0
        null_cells == NullCells(df) IN
    Computed(Result("completeness_validator", "completeness", acc.passed,
                    total_cells - null_cells, null_cells, total_cells,
                    acc.errs))

\* validate_expected_records: the tolerance is the float written as a
\* number of hundredths (10 for 0.1);
\* min_expected = expected_count * (1 - tolerance),
\* max_expected = expected_count * (1 + tolerance),
\* passed = min_expected <= actual_count <= max_expected
ValidateExpectedRecords(df, expected_count, tolerance) ==
    LET actual_count == df.n
        tol == FloatDiv(tolerance, 100)
        min_expected == FloatMulInt(OneMinus(tol), expected_count)
        max_expected == FloatMulInt(OnePlus(tol), expected_count)
        passed == /\ FloatCmpInt(min_expected, actual_count) <= 0
                  /\ FloatCmpInt(max_expected, actual_count) >= 0
        errs == IF ~passed
                THEN <<[check |-> "expected_record_count",
                        expected |-> expected_count,
                        actual |-> actual_count]>>
                ELSE <<>> IN
    Computed(Result("completeness_validator", "expected_record_count",
                    passed, IF passed THEN actual_count ELSE 0,
                    IF passed THEN 0 ELSE actual_count, actual_count, errs))

(* -------------------------- AccuracyValidator ------------------------- *)

\* error_details = []; passed_count = 0; failed_count = 0
NoCounts == [errs |-> <<>>, passed |-> 0, failed |-> 0, exc |-> "none"]

\* ordering a string against a number raises TypeError
IsStr(v) == v = Str

HasStr(col) == \E i \in DOMAIN col.vals : IsStr(col.vals[i])

\* one check over the whole dataset found `violations` rows:
\* if violations > 0: failed_count += violations; error_details.append(..)
\* passed_count += len(df) - violations
Tally(acc, df, entry, violations) ==
    [acc EXCEPT !.errs = IF violations > 0 THEN Append(@, entry) ELSE @,
                !.failed = @ + violations,
                !.passed = @ + df.n - violations]

\* a mutation: the bounds themselves are out of range
MutOutOfRangeExclusive(v, min_val, max_val) ==
    v # Null /\ (v <= min_val \/ v >= max_val)

\* (df[column] < min_val) | (df[column] > max_val); NaN compares false
OutOfRange(v, min_val, max_val) ==
    v # Null /\ (v < min_val \/ v > max_val)

\* len(df[mask]) for the range of one column
RangeViolations(vals, min_val, max_val) ==
    Cardinality({i \in DOMAIN vals : OutOfRange(vals[i], min_val, max_val)})

\* for column, (min_val, max_val) in value_ranges.items()
RECURSIVE CheckRanges(_, _, _)
CheckRanges(acc, df, rules) ==
    IF rules = <<>> \/ acc.exc # "none" THEN acc
    ELSE LET r == Head(rules)
             col == df.c[r.column]
             n == RangeViolations(col.vals, r.min, r.max) IN
         CheckRanges(
            IF r.column \notin Columns(df) THEN acc
            ELSE IF HasStr(col) THEN [acc EXCEPT !.exc = "TypeError"]
            ELSE Tally(acc, df, [check |-> "value_range",
                                 column |-> r.column,
                                 range |-> <<r.min, r.max>>,
                                 violations |-> n], n),
            df, Tail(rules))

\* the rows the mask marks: a cell outside the accepted values
Rejected(vals, accepted) ==
    Cardinality({i \in DOMAIN vals : vals[i] \notin accepted})

\* for column, valid_values in categorical_values.items():
\* mask = ~df[column].isin(valid_values)
RECURSIVE CheckCategorical(_, _, _)
CheckCategorical(acc, df, rules) ==
    IF rules = <<>> \/ acc.exc # "none" THEN acc
    ELSE LET r == Head(rules)
             n == Rejected(df.c[r.column].vals, r.valid_values) IN
         CheckCategorical(
            IF r.column \notin Columns(df) THEN acc
            ELSE Tally(acc, df, [check |-> "categorical_values",
                                 column |-> r.column,
                                 violations |-> n], n),
            df, Tail(rules))

\* for column, pattern in regex_patterns.items():
\* mask = ~df[column].astype(str).str.match(pattern, na=False);
\* a pattern is given by the cells whose string form it matches
RECURSIVE CheckRegex(_, _, _)
CheckRegex(acc, df, rules) ==
    IF rules = <<>> \/ acc.exc # "none" THEN acc
    ELSE LET r == Head(rules)
             n == Rejected(df.c[r.column].vals, r.matches) IN
         CheckRegex(
            IF r.column \notin Columns(df) THEN acc
            ELSE Tally(acc, df, [check |-> "regex_pattern",
                                 column |-> r.column,
                                 violations |-> n], n),
            df, Tail(rules))

\* the custom rules of the model: "ge1" is lambda s: s >= 1, "raises" is a
\* rule whose evaluation raises
RuleRaises(rule, col) == rule = "raises" \/ HasStr(col)

RuleRejected(vals) ==
    Cardinality({i \in DOMAIN vals : ~(vals[i] # Null /\ vals[i] >= 1)})

\* for column, rule_func in custom_rules.items(): the evaluation runs in a
\* try; an exception is logged and the rule leaves no trace
RECURSIVE CheckCustom(_, _, _)
CheckCustom(acc, df, rules) ==
    IF rules = <<>> \/ acc.exc # "none" THEN acc
    ELSE LET r == Head(rules)
             col == df.c[r.column]
             n == RuleRejected(col.vals) IN
         CheckCustom(
            IF r.column \notin Columns(df) THEN acc
            ELSE IF RuleRaises(r.rule, col) THEN acc
            ELSE Tally(acc, df, [check |-> "custom_rule",
                                 column |-> r.column, rule |-> r.rule,
                                 violations |-> n], n),
            df, Tail(rules))

\* a mutation: the total leaves the failed records out
MutSummarizePassedOnly(name, type, acc) ==
    IF acc.exc # "none" THEN Escaped(acc.exc)
    ELSE Computed(Result(name, type, Len(acc.errs) = 0, acc.passed,
                         acc.failed, acc.passed, acc.errs))

\* total_records = passed_count + failed_count;
\* passed = len(error_details) == 0
Summarize(name, type, acc) ==
    IF acc.exc # "none" THEN Escaped(acc.exc)
    ELSE Computed(Result(name, type, Len(acc.errs) = 0, acc.passed,
                         acc.failed, acc.passed + acc.failed, acc.errs))

\* AccuracyValidator.validate up to the construction of the result
AccuracyValidate(df, value_ranges, categorical_values, regex_patterns, custom_rules) ==
    Summarize("accuracy_validator", "accuracy",
       CheckCustom(
          CheckRegex(
             CheckCategorical(CheckRanges(NoCounts, df, value_ranges),
                              df, categorical_values),
             df, regex_patterns),
          df, custom_rules))

(* ------------------------- ConsistencyValidator ----------------------- *)

\* for column, expected_dtype in data_types.items():
\* str(actual_dtype) != expected_dtype fails all len(df) records
RECURSIVE CheckDataTypes(_, _, _)
CheckDataTypes(acc, df, rules) ==
    IF rules = <<>> THEN acc
    ELSE LET r == Head(rules)
             actual == df.c[r.column].dtype IN
         CheckDataTypes(
            IF r.column \notin Columns(df) THEN acc
            ELSE IF actual # r.expected
            THEN [acc EXCEPT
                     !.errs = Append(@, [check |-> "data_type",
                                         column |-> r.column,
                                         expected |-> r.expected,
                                         actual |-> actual]),
                     !.failed = @ + df.n]
            ELSE [acc EXCEPT !.passed = @ + df.n],
            df, Tail(rules))

\* a mutation: every row of a repeated value is counted, the first too
MutDuplicatesKeepNone(vals) ==
    Cardinality({i \in DOMAIN vals :
                    \E j \in DOMAIN vals \ {i} : vals[j] = vals[i]})

\* df[column].duplicated().sum(): the rows equal to an earlier row
Duplicates(vals) ==
    Cardinality({i \in DOMAIN vals :
                    \E j \in 1..(i - 1) : vals[j] = vals[i]})

\* for column in unique_columns
RECURSIVE CheckUnique(_, _, _)
CheckUnique(acc, df, columns) ==
    IF columns = <<>> THEN acc
    ELSE LET column == Head(columns)
             n == Duplicates(df.c[column].vals) IN
         CheckUnique(
            IF column \notin Columns(df) THEN acc
            ELSE Tally(acc, df, [check |-> "uniqueness", column |-> column,
                                 duplicates |-> n], n),
            df, Tail(columns))

\* the values pd.to_datetime rejects under the format; a format is given
\* by the cells it parses, a null parses to NaT
InvalidDates(vals, parses) ==
    Cardinality({i \in DOMAIN vals :
                    vals[i] # Null /\ vals[i] \notin parses})

\* for column, date_format in date_formats.items(): the column parses as a
\* whole, or the values that do not parse are counted one by one
RECURSIVE CheckDateFormats(_, _, _)
CheckDateFormats(acc, df, rules) ==
    IF rules = <<>> THEN acc
    ELSE LET r == Head(rules)
             n == InvalidDates(df.c[r.column].vals, r.parses) IN
         CheckDateFormats(
            IF r.column \notin Columns(df) THEN acc
            ELSE Tally(acc, df, [check |-> "date_format",
                                 column |-> r.column,
                                 invalid_count |-> n], n),
            df, Tail(rules))

\* the comparison functions of the model: "le" is lambda a, b: a <= b,
\* "raises" is a function whose evaluation raises. df[col1] <= df[col2]
\* orders the cells pair by pair and a string against a number raises
\* TypeError. An object column on the left is compared by pandas, which
\* answers False for a pair with a null on either side without ordering
\* it; any other column on the left is compared by numpy, which orders
\* every pair, NaN against a string too.
CompareRaises(func, c1, c2) ==
    \/ func = "raises"
    \/ \E i \in DOMAIN c1.vals :
          /\ IsStr(c1.vals[i]) # IsStr(c2.vals[i])
          /\ c1.dtype = "object" =>
                c1.vals[i] # Null /\ c2.vals[i] # Null

\* (~mask).sum(): a comparison with NaN is false
CompareRejected(v1, v2) ==
    Cardinality({i \in DOMAIN v1 :
                    ~(v1[i] # Null /\ v2[i] # Null /\ v1[i] <= v2[i])})

\* for col1, col2, comparison_func in cross_field_rules: evaluated in a
\* try; an exception is logged and the rule leaves no trace
RECURSIVE CheckCrossField(_, _, _)
CheckCrossField(acc, df, rules) ==
    IF rules = <<>> THEN acc
    ELSE LET r == Head(rules)
             n == CompareRejected(df.c[r.col1].vals, df.c[r.col2].vals) IN
         CheckCrossField(
            IF r.col1 \notin Columns(df) \/ r.col2 \notin Columns(df)
            THEN acc
            ELSE IF CompareRaises(r.func, df.c[r.col1], df.c[r.col2])
            THEN acc
            ELSE Tally(acc, df, [check |-> "cross_field",
                                 columns |-> <<r.col1, r.col2>>,
                                 violations |-> n], n),
            df, Tail(rules))

\* ConsistencyValidator.validate up to the construction of the result
ConsistencyValidate(df, data_types, unique_columns, date_formats, cross_field_rules) ==
    Summarize("consistency_validator", "consistency",
       CheckCrossField(
          CheckDateFormats(
             CheckUnique(CheckDataTypes(NoCounts, df, data_types),
                         df, unique_columns),
             df, date_formats),
          df, cross_field_rules))

(* --------------------------- SchemaValidator -------------------------- *)

\* a schema_def without a 'type'
NoType == "none"

\* type_mappings of _is_type_compatible
TypeMappings ==
    [int |-> {"int64", "int32", "int16", "int8"},
     float |-> {"float64", "float32", "float16"},
     string |-> {"object", "string"},
     bool |-> {"bool"},
     datetime |-> {"datetime64", "datetime64[ns]"}]

\* the letters str.lower() maps
UpperCase == "ABCDEFGHIJKLMNOPQRSTUVWXYZ"

LowerCase == "abcdefghijklmnopqrstuvwxyz"

\* lower() of each upper-case letter
LowerOf ==
    [ch \in {SubSeq(UpperCase, i, i) : i \in 1..Len(UpperCase)} |->
        LET i == CHOOSE k \in 1..Len(UpperCase) :
                    SubSeq(UpperCase, k, k) = ch IN
        SubSeq(LowerCase, i, i)]

\* one character of a str under lower()
LowerChar(ch) == IF ch \in DOMAIN LowerOf THEN LowerOf[ch] ELSE ch

\* str.lower()
RECURSIVE Lower(_)
Lower(s) ==
    IF Len(s) = 0 THEN s
    ELSE LowerChar(SubSeq(s, 1, 1)) \o Lower(SubSeq(s, 2, Len(s)))

\* `sub in s`: sub occurs in s as a run of characters
Contains(s, sub) ==
    \E i \in 1..(Len(s) - Len(sub) + 1) :
       SubSeq(s, i, i + Len(sub) - 1) = sub

\* _is_type_compatible(actual_type, expected_type)
IsTypeCompatible(actual_type, expected_type) ==
    LET expected == Lower(expected_type) IN
    IF expected \in DOMAIN TypeMappings
    THEN \E actual \in TypeMappings[expected] :
            Contains(actual_type, actual)
    ELSE Lower(actual_type) = expected

\* for column, schema_def in expected_schema.items(): nullability, then
\* data type compatibility; a column the dataset lacks is skipped
RECURSIVE CheckProperties(_, _, _)
CheckProperties(acc, df, schema) ==
    IF schema = <<>> THEN acc
    ELSE LET d == Head(schema)
             col == df.c[d.column]
             a1 == IF ~d.nullable /\ NullCount(col) > 0
                   THEN Fail(acc, [check |-> "nullability",
                                   column |-> d.column,
                                   null_count |-> NullCount(col)])
                   ELSE acc
             a2 == IF d.type # NoType
                      /\ ~IsTypeCompatible(col.dtype, d.type)
                   THEN Fail(a1, [check |-> "data_type",
                                  column |-> d.column,
                                  expected |-> d.type,
                                  actual |-> col.dtype])
                   ELSE a1 IN
         CheckProperties(IF d.column \notin Columns(df) THEN acc ELSE a2,
                         df, Tail(schema))

\* SchemaValidator.validate up to the construction of the result
SchemaValidate(df, expected_schema, allow_extra_columns) ==
    LET expected_columns ==
            {expected_schema[i].column : i \in DOMAIN expected_schema}
        missing_columns == expected_columns \ Columns(df)
        extra_columns == Columns(df) \ expected_columns
        a1 == IF missing_columns # {}
              THEN Fail(NoErrors, [check |-> "missing_columns",
                                   columns |-> missing_columns])
              ELSE NoErrors
        a2 == IF ~allow_extra_columns /\ extra_columns # {}
              THEN Fail(a1, [check |-> "extra_columns",
                             columns |-> extra_columns])
              ELSE a1
        a3 == CheckProperties(a2, df, expected_schema) IN
    Computed(Result("schema_validator", "schema", a3.passed,
                    IF a3.passed THEN df.n ELSE 0,
                    IF a3.passed THEN 0 ELSE df.n, df.n, a3.errs))

(* --------------------------- validator calls -------------------------- *)

\* raise_if_failed: if self.strict_mode and not result.passed: raise
RaiseIfFailed(strict_mode, result) ==
    IF strict_mode /\ ~result.passed THEN "ValueError" ELSE "none"

\* the end of validate(): an exception of the evaluation leaves at once;
\* else the result is constructed, then log_result(result), then
\* raise_if_failed(result), then return result
Validated(op, strict_mode, df, args, out) ==
    LET e == RaiseIfFailed(strict_mode, out.result) IN
    [pc |-> "done", op |-> op, strict |-> strict_mode, df |-> df,
     args |-> args, result |-> out.result,
     events |-> IF out.exc # "none" THEN <<"raise">>
                ELSE <<"result", "log",
                       IF e # "none" THEN "raise" ELSE "return">>,
     exc |-> IF out.exc # "none" THEN out.exc ELSE e]

\* the rule sets the validators are called with
RequiredSets == SUBSET {"a", "b", "c"}

NullThresholds == {0, 50, 55, 100}

ExpectedCounts == 0..(MaxValRows + 1) \cup {LongRows}

Tolerances == {0, 10, 50, 95}

Ranges == {<<1, 1>>, <<0, 2>>}

RangeRule(c, r) == [column |-> c, min |-> r[1], max |-> r[2]]

ValueRanges ==
    {<<>>}
    \cup {<<RangeRule(c, r)>> : c \in {"a", "c"}, r \in Ranges}
    \cup {<<RangeRule("a", r1), RangeRule("b", r2)>> :
             r1 \in Ranges, r2 \in Ranges}

Categorical == <<[column |-> "a", valid_values |-> {0, 1}]>>

Regex == <<[column |-> "a", matches |-> {1, Null}]>>

CustomRules == {<<[column |-> "a", rule |-> k]>> : k \in {"ge1", "raises"}}

\* the other rule families of an accuracy call: none, one of them, or all
AccuracyExtras ==
    {[categorical |-> <<>>, regex |-> <<>>, custom |-> <<>>],
     [categorical |-> Categorical, regex |-> <<>>, custom |-> <<>>],
     [categorical |-> <<>>, regex |-> Regex, custom |-> <<>>]}
    \cup {[categorical |-> c, regex |-> c, custom |-> u] :
             c \in {<<>>}, u \in CustomRules}
    \cup {[categorical |-> Categorical, regex |-> Regex, custom |-> u] :
             u \in {<<>>} \cup CustomRules}

DataTypes ==
    {<<>>} \cup {<<[column |-> "a", expected |-> t]>> :
                    t \in {"float64", "object"}}

UniqueColumns == {<<>>, <<"a">>, <<"a", "b">>}

DateFormats == {<<>>, <<[column |-> "a", parses |-> {Str}]>>}

CrossFieldRules ==
    {<<>>} \cup {<<[col1 |-> "a", col2 |-> "b", func |-> f]>> :
                    f \in {"le", "raises"}}

SchemaTypes ==
    {NoType, "int", "float", "Float", "string", "bool", "datetime",
     "float64"}

SchemaDefs ==
    {[column |-> "a", type |-> t, nullable |-> nb] :
        t \in SchemaTypes, nb \in BOOLEAN}

Schemas ==
    {<<>>} \cup {<<d>> : d \in SchemaDefs}
    \cup {<<d, [column |-> "c", type |-> "int", nullable |-> TRUE]>> :
             d \in SchemaDefs}

\* the datasets of the schema calls: columns with and without nulls, and
\* columns of every dtype
SchemaFrames ==
    Frames([n \in 0..MaxValRows |->
               SparseColumns(n) \cup ObjectColumns(n)])
    \cup TypedFrames

\* the datasets of the completeness calls
CompletenessFrames ==
    Frames([n \in 0..MaxValRows |-> SparseColumns(n)]) \cup LongFrames

ValidateCompleteness ==
    /\ val.pc = "idle"
    /\ \E strict \in BOOLEAN, df \in CompletenessFrames,
          req \in RequiredSets, thr \in NullThresholds,
          m \in 0..MaxValRows :
          val' = Validated("completeness", strict, df,
                    [required_columns |-> req, null_threshold |-> thr,
                     min_row_count |-> m],
                    CompletenessValidate(df, req, thr, m))
    /\ UNCHANGED <<now, lockVars, stage, dbVars, run, s3>>

ValidateExpected ==
    /\ val.pc = "idle"
    /\ \E strict \in BOOLEAN, df \in Frames([n \in 0..MaxValRows |-> SparseColumns(n)]),
          ec \in ExpectedCounts, tol \in Tolerances :
          val' = Validated("expected_records", strict, df,
                    [expected_count |-> ec, tolerance |-> tol],
                    ValidateExpectedRecords(df, ec, tol))
    /\ UNCHANGED <<now, lockVars, stage, dbVars, run, s3>>

ValidateAccuracy ==
    /\ val.pc = "idle"
    /\ \E strict \in BOOLEAN, df \in Frames([n \in 0..MaxValRows |-> AnyColumns(n)]),
          vr \in ValueRanges, x \in AccuracyExtras :
          val' = Validated("accuracy", strict, df,
                    [value_ranges |-> vr, categorical_values |-> x.categorical,
                     regex_patterns |-> x.regex, custom_rules |-> x.custom],
                    AccuracyValidate(df, vr, x.categorical, x.regex,
                                     x.custom))
    /\ UNCHANGED <<now, lockVars, stage, dbVars, run, s3>>

ValidateConsistency ==
    /\ val.pc = "idle"
    /\ \E strict \in BOOLEAN, df \in Frames([n \in 0..MaxValRows |-> AnyColumns(n)]),
          dt \in DataTypes, uq \in UniqueColumns, dfm \in DateFormats,
          cf \in CrossFieldRules :
          val' = Validated("consistency", strict, df,
                    [data_types |-> dt, unique_columns |-> uq,
                     date_formats |-> dfm, cross_field_rules |-> cf],
                    ConsistencyValidate(df, dt, uq, dfm, cf))
    /\ UNCHANGED <<now, lockVars, stage, dbVars, run, s3>>

ValidateSchema ==
    /\ val.pc = "idle"
    /\ \E strict \in BOOLEAN, df \in SchemaFrames,
          sc \in Schemas, extra \in BOOLEAN :
          val' = Validated("schema", strict, df,
                    [expected_schema |-> sc, allow_extra_columns |-> extra],
                    SchemaValidate(df, sc, extra))
    /\ UNCHANGED <<now, lockVars, stage, dbVars, run, s3>>

\* the caller has the result (or the exception) of the call
ValReturn ==
    /\ val.pc = "done"
    /\ val' = IdleVal
    /\ UNCHANGED <<now, lockVars, stage, dbVars, run, s3>>

(* ------------------------------ S3Handler ----------------------------- *)

\* largest number of objects the staging bucket holds
MaxObjects == 2

\* largest number of rows in a staged dataset
MaxStagedRows == 1

\* config.s3.bucket
Bucket == "financial-etl-staging"

\* config.s3.prefix
Prefix == "staging/"

\* the formats upload_dataframe and download_dataframe know
Formats == {"parquet", "csv", "json"}

\* the suffix upload_dataframe appends to the key
Extension(format) ==
    CASE format = "parquet" -> ".parquet"
      [] format = "csv" -> ".csv"
      [] format = "json" -> ".jsonl"

\* key.startswith(prefix)
StartsWith(s, prefix) ==
    Len(s) >= Len(prefix) /\ SubSeq(s, 1, Len(prefix)) = prefix

\* upload_dataframe: full_key = f"{self.prefix}{key}", then the suffix of
\* the format
UploadKey(key, format) == Prefix \o key \o Extension(format)

\* download_dataframe: the prefix is added unless the key has it; no
\* suffix is added
DownloadKey(key) == IF StartsWith(key, Prefix) THEN key ELSE Prefix \o key

\* the datasets that are staged: len(df) and the column names
StagedFrames ==
    {[n |-> n, columns |-> c] :
        n \in 0..MaxStagedRows, c \in {{"a"}, {"a", "b"}}}

\* df.to_parquet(index=False) / df.to_csv(index=False) /
\* df.to_json(orient='records', lines=True): parquet keeps the schema and
\* csv a header line, json lines are one record per row, so a dataset
\* without rows is written as no text at all
Serialize(df, format) ==
    [format |-> format, n |-> df.n,
     columns |-> IF format = "json" /\ df.n = 0 THEN {} ELSE df.columns]

\* the header pd.read_csv makes of a json record: the pieces between its
\* commas, one per column and none of them a column name of the dataset
JsonHeader(columns) == {"{" \o col \o "}" : col \in columns}

\* pd.read_parquet / pd.read_csv / pd.read_json(lines=True) on the bytes
\* of the object, whatever wrote them: what the reader raises or returns.
\* Only a parquet file has the magic bytes read_parquet looks for;
\* read_csv takes the first line as the header (no line: EmptyDataError),
\* so the first record of json lines becomes column names and the rows
\* are one less; a csv header is no json value; the bytes of a parquet
\* file are no text
ReadOutcomes(body, format) ==
    LET Ok(n, columns) == [exc |-> "none", df |-> [n |-> n, columns |-> columns]]
        Raise(e) == [exc |-> e, df |-> [n |-> 0, columns |-> {}]] IN
    CASE format = "parquet" ->
            IF body.format = "parquet" THEN {Ok(body.n, body.columns)}
            ELSE {Raise("ArrowInvalid")}
      [] format = "csv" ->
            IF body.format = "csv" THEN {Ok(body.n, body.columns)}
            ELSE IF body.format = "parquet"
            THEN {Raise("UnicodeDecodeError"), Raise("ParserError")}
            ELSE IF body.n = 0 THEN {Raise("EmptyDataError")}
            ELSE {Ok(body.n - 1, JsonHeader(body.columns))}
      [] format = "json" ->
            IF body.format = "json" THEN {Ok(body.n, body.columns)}
            ELSE IF body.format = "parquet"
            THEN {Raise("UnicodeDecodeError"), Raise("ValueError")}
            ELSE {Raise("ValueError")}
      [] OTHER -> {Raise("ValueError")}

\* s3_client.upload_fileobj: the object replaces the one under its key
PutObject(objects, key, body) ==
    [k \in DOMAIN objects \cup {key} |->
        IF k = key THEN body ELSE objects[k]]

\* neither call is in progress
IdleCall == [pc |-> "idle"]

\* what a finished call leaves to its caller
DoneCall(op, key, format, df, ret, exc) ==
    [pc |-> "done", op |-> op, key |-> key, format |-> format, df |-> df,
     ret |-> ret, exc |-> exc]

NoFrame == [n |-> 0, columns |-> {}]

\* the keys callers stage datasets under
UploadKeys == {"raw", "staging/out"}

\* the keys callers read back: as given to the upload, or taken from the
\* path the upload returned (s3_path.split(bucket + '/')[-1])
DownloadKeys == UploadKeys \cup DOMAIN s3.objects

\* the data upload_json is given: dictionaries, named by their keys
JsonDocs == {{"x"}}

\* upload_json: full_key = f"{self.prefix}{key}.json"
JsonKey(key) == Prefix \o key \o ".json"

\* json.dumps(data): one line of text holding one record
SerializeJson(data) == [format |-> "json", n |-> 1, columns |-> data]

\* the staging area once upload_dataframe has stored df under key
Uploaded(s, df, key, format) ==
    [s EXCEPT !.objects = PutObject(s.objects, UploadKey(key, format),
                                    Serialize(df, format)),
              !.uploads = PutObject(s.uploads, key,
                                    [df |-> df, format |-> format])]

\* s3_client.delete_object: the key is gone, and so is what was staged
\* under it
Deleted(s, k) ==
    [s EXCEPT !.objects = [j \in DOMAIN s.objects \ {k} |-> s.objects[j]],
              !.uploads = [key \in {u \in DOMAIN s.uploads :
                                      UploadKey(u, s.uploads[u].format) # k}
                              |-> s.uploads[key]]]

\* upload_dataframe(df, key, format): an unknown format raises ValueError
\* and the client's exception is re-raised, both before anything is
\* stored; else the object is stored and its path returned
UploadDataframe ==
    /\ s3.call.pc = "idle"
    /\ \E df \in StagedFrames, key \in UploadKeys,
          format \in Formats \cup {"xml"}, sent \in BOOLEAN :
          LET full_key == UploadKey(key, format) IN
          IF format \notin Formats
          THEN s3' = [s3 EXCEPT !.call = DoneCall("upload", key, format,
                                             df, "", "ValueError")]
          ELSE IF ~sent
          THEN s3' = [s3 EXCEPT !.call = DoneCall("upload", key, format,
                                             df, "", "ClientError")]
          ELSE /\ Cardinality(DOMAIN s3.objects \cup {full_key})
                     <= MaxObjects
               /\ s3' = [Uploaded(s3, df, key, format) EXCEPT !.call =
                            DoneCall("upload", key, format, df,
                                     "s3://" \o Bucket \o "/" \o full_key,
                                     "none")]
    /\ UNCHANGED <<now, lockVars, stage, dbVars, val, run>>

\* download_dataframe(key, format): the object is fetched first (the
\* client raises when there is none under the key), then read in the
\* format asked for, whatever the format it was written in; an unknown
\* format raises ValueError. Every exception is logged and re-raised
DownloadDataframe ==
    /\ s3.call.pc = "idle"
    /\ \E key \in DownloadKeys, format \in Formats \cup {"xml"} :
          LET k == DownloadKey(key) IN
          IF k \notin DOMAIN s3.objects
          THEN s3' = [s3 EXCEPT !.call = DoneCall("download", key, format,
                                             NoFrame, "", "ClientError")]
          ELSE \E out \in ReadOutcomes(s3.objects[k], format) :
                  s3' = [s3 EXCEPT !.call = DoneCall("download", key,
                                      format, out.df, "", out.exc)]
    /\ UNCHANGED <<now, lockVars, stage, dbVars, val, run>>

\* upload_json(data, key): put_object stores the text under the key with
\* the suffix .json and the path is returned, or the client's exception
\* is logged and re-raised
UploadJson ==
    /\ s3.call.pc = "idle"
    /\ \E data \in JsonDocs, key \in UploadKeys, sent \in BOOLEAN :
          LET full_key == JsonKey(key) IN
          IF ~sent
          THEN s3' = [s3 EXCEPT !.call = DoneCall("upload_json", key,
                                   "json", NoFrame, "", "ClientError")]
          ELSE /\ Cardinality(DOMAIN s3.objects \cup {full_key})
                     <= MaxObjects
               /\ s3' = [s3 EXCEPT
                            !.objects = PutObject(s3.objects, full_key,
                                                  SerializeJson(data)),
                            !.call = DoneCall("upload_json", key, "json",
                                       NoFrame,
                                       "s3://" \o Bucket \o "/" \o full_key,
                                       "none")]
    /\ UNCHANGED <<now, lockVars, stage, dbVars, val, run>>

\* delete_object(key): the prefix is added unless the key has it; the
\* client deletes the key (if there is one) and True is returned; an
\* exception of the client is logged and False is returned
DeleteObject ==
    /\ s3.call.pc = "idle"
    /\ \E key \in DownloadKeys \cup {JsonKey(u) : u \in UploadKeys},
          sent \in BOOLEAN :
          s3' = IF sent
                THEN [Deleted(s3, DownloadKey(key)) EXCEPT !.call =
                        DoneCall("delete", key, "", NoFrame, "True", "none")]
                ELSE [s3 EXCEPT !.call =
                        DoneCall("delete", key, "", NoFrame, "False", "none")]
    /\ UNCHANGED <<now, lockVars, stage, dbVars, val, run>>

\* the caller has the result (or the exception) of the call
S3Return ==
    /\ s3.call.pc = "done"
    /\ s3' = [s3 EXCEPT !.call = IdleCall]
    /\ UNCHANGED <<now, lockVars, stage, dbVars, val, run>>

(* ------------------------ stage lifecycle wrapper --------------------- *)

\* execute() / extract_and_stage(s3_key) is called and runs the pre hook:
\* self.start_time = datetime.now(); then the core operation starts
StageCall ==
    /\ stage.pc \in {"idle", "done"}
    /\ stage.inv < MaxCalls
    /\ \E s3_key \in IF stage.kind = "extractor" THEN UploadKeys ELSE {""} :
          stage' = [stage EXCEPT !.pc = "core", !.start_time = now,
                                 !.inv = stage.inv + 1,
                                 !.start_inv = stage.inv + 1,
                                 !.result = 0, !.meta = FALSE,
                                 !.key = s3_key,
                                 !.exc = "none", !.thrown = "none"]
    /\ UNCHANGED <<now, lockVars, unitVars>>

\* the core operation returns a dataset of n rows (a loader: n rows loaded)
CoreReturn ==
    /\ stage.pc = "core"
    /\ \E n \in 0..MaxDfRows :
          stage' = [stage EXCEPT !.pc = "post", !.result = n]
    /\ UNCHANGED <<now, lockVars, unitVars>>

\* a wrapper that runs the post hook in a `finally:`
MutOnCoreRaisePost(s, e) ==
    [s EXCEPT !.pc = "done", !.exc = e, !.thrown = e, !.end_time = now,
              !.count = s.result, !.end_inv = s.inv]

\* the wrapper has no try/except: an exception of the core operation leaves
\* execute() at once, the post hook is not reached
OnCoreRaise(s, e) == [s EXCEPT !.pc = "done", !.exc = e, !.thrown = e]

\* the core operation raises
CoreRaise ==
    /\ stage.pc = "core"
    /\ \E e \in CoreErrors : stage' = OnCoreRaise(stage, e)
    /\ UNCHANGED <<now, lockVars, unitVars>>

\* the post hook: self.end_time = datetime.now(), the count is recorded;
\* post_extract also adds the provenance columns, and extract_and_stage
\* goes on to upload the dataset; execute() returns the result
Post ==
    /\ stage.pc = "post"
    /\ stage' = [stage EXCEPT
                    !.pc = IF stage.kind = "extractor" THEN "upload"
                                                       ELSE "done",
                    !.end_time = now, !.count = stage.result,
                    !.end_inv = stage.inv,
                    !.meta = (stage.kind = "extractor")]
    /\ UNCHANGED <<now, lockVars, unitVars>>

\* the columns of an extracted dataset: post_extract adds source_system
\* and extracted_at to those of the source
ExtractedColumns == {"a", "source_system", "extracted_at"}

\* s3_handler.upload_dataframe(df, s3_key, format='parquet') stores the
\* dataset and returns the staged path, or raises after logging;
\* extract_and_stage does not catch it
UploadEnd ==
    /\ stage.pc = "upload"
    /\ \/ /\ stage' = [stage EXCEPT !.pc = "done"]
          /\ s3' = Uploaded(s3, [n |-> stage.result,
                                 columns |-> ExtractedColumns],
                            stage.key, "parquet")
       \/ /\ stage' = [stage EXCEPT !.pc = "done", !.exc = "UploadError"]
          /\ s3' = s3
    /\ UNCHANGED <<now, lockVars, dbVars, val, run>>

(* --------------------------- the load stage --------------------------- *)

\* largest number of rows of metadata.etl_run_log
MaxRunRecords == 2

\* load_stock_prices calls loader.execute(df, table_name=
\* 'analytics.daily_stock_analytics', if_exists='append', use_lock=True):
\* the write runs inside DistributedLock('load_<table>').context()
CallLoadStage(p) ==
    /\ proc[p].pc = "idle"
    /\ Len(run.log) < MaxRunRecords
    /\ CanWait(NoTimeout)
    /\ \E t \in Tables, n \in DfRows :
          proc' = [proc EXCEPT ![p] =
              [EnterAcquire("load", LockNameOf(t), LoadToken(p), TRUE,
                            NoTimeout)
                 EXCEPT !.target = t, !.use_lock = TRUE, !.rows = n]]
    /\ UNCHANGED <<now, store, table, stageVars>>

\* a mutation: the run record is written inside the lock scope
MutLogEtlRunInScope(p) ==
    LET r == proc[p] IN
    /\ r.pc = "exit" /\ r.exc = "none"
    /\ Len(run.log) < MaxRunRecords
    /\ run' = [run EXCEPT !.log = Append(@, [status |-> "SUCCESS",
                                             records_loaded |-> r.ret])]
    /\ store' = ReleaseStore(r.name, r.token)
    /\ proc' = [proc EXCEPT ![p] =
           [r EXCEPT !.pc = "logged",
                     !.released = ReleaseResult(r.name, r.token)]]
    /\ UNCHANGED <<now, table, stage, dbVars, val, s3>>

\* loader.execute has returned loaded_count: db.log_etl_run(...,
\* status='SUCCESS', records_loaded=loaded_count) inserts the run record
\* in a transaction of its own, or its INSERT or COMMIT raises: the
\* transaction is rolled back and the exception leaves the task
LogEtlRun(p) ==
    LET r == proc[p] IN
    /\ r.pc = "done" /\ r.exc = "none"
    /\ \/ /\ run' = [run EXCEPT !.log =
                        Append(@, [status |-> "SUCCESS",
                                   records_loaded |-> r.ret])]
          /\ proc' = [proc EXCEPT ![p] = [r EXCEPT !.pc = "logged"]]
       \/ /\ run' = run
          /\ proc' = [proc EXCEPT ![p] =
                 [r EXCEPT !.pc = "raised", !.exc = "DbError"]]
    /\ UNCHANGED <<now, store, table, stage, dbVars, val, s3>>

\* the task instance ends: after the run record, or with the exception
\* that left loader.execute or db.log_etl_run
StageReturn(p) ==
    /\ \/ proc[p].pc \in {"logged", "raised"}
       \/ proc[p].pc = "done" /\ proc[p].exc # "none"
    /\ proc' = [proc EXCEPT ![p] = IdleProc]
    /\ UNCHANGED <<now, store, table, stageVars>>

(* ------------------------- financial_etl_pipeline --------------------- *)

\* a mutation: a task runs whatever the state of the tasks before it
MutReadyAnyOrder(i) ==
    /\ run.pc = "active"
    /\ run.state[i] \in {"none", "up_for_retry"}

\* start >> extract_group >> validate_group >> transform_group >>
\* load_group >> end, every task with the default trigger rule: a task
\* instance runs once all the tasks before it have succeeded
Ready(i) ==
    /\ run.pc = "active"
    /\ run.state[i] \in {"none", "up_for_retry"}
    /\ \A j \in 1..(i - 1) : run.state[j] = "success"

\* the scheduler after an attempt of task i: success, or the callable
\* raised: the task is retried while its tries do not exceed `retries`,
\* then it has failed and the tasks after it are never run. The run is
\* over when a task has failed or the last task has succeeded.
Attempted(r, i, ok) ==
    LET t == r.tries[i] + 1
        st == IF ok THEN "success"
              ELSE IF t <= Retries THEN "up_for_retry" ELSE "failed" IN
    [r EXCEPT !.tries[i] = t,
              !.state = [j \in DOMAIN Stages |->
                            IF j = i THEN st
                            ELSE IF st = "failed" /\ j > i
                            THEN "upstream_failed" ELSE r.state[j]],
              !.pc = IF st = "failed" \/ (ok /\ i = Len(Stages))
                     THEN "done" ELSE "active"]

\* the scheduler creates the DAG run
RunTrigger ==
    /\ run.pc = "idle"
    /\ run' = [IdleRun EXCEPT !.pc = "active"]
    /\ UNCHANGED <<now, lockVars, stage, dbVars, val, s3>>

\* f"raw/stock_prices/{context['ds']}/data" and
\* f"transformed/stock_prices/{context['ds']}/data" of the run's date
RawKey == "raw/stock_prices/2024-01-01/data"

TransformedKey == "transformed/stock_prices/2024-01-01/data"

\* the columns of the stock price dataset
StockColumns ==
    {"symbol", "trade_date", "open_price", "high_price", "low_price",
     "close_price", "volume"}

\* StockPriceTransformer.transform keeps every row and column and adds
\* the daily return, the moving averages, the volatility and the RSI
TransformedColumns ==
    StockColumns \cup {"daily_return", "moving_avg_20d", "moving_avg_50d",
                       "moving_avg_200d", "volatility_20d", "rsi_14d"}

\* key = s3_path.split(s3_handler.bucket + '/')[-1] of the path the task
\* before returned; download_dataframe(key, format='parquet') finds the
\* object
Downloadable(key) ==
    DownloadKey(UploadKey(key, "parquet")) \in DOMAIN s3.objects

\* extract_stock_prices: builds the dataset and stages it with
\* upload_dataframe; an exception (of the upload) is logged and re-raised
ExtractTask ==
    /\ Ready(1)
    /\ \/ \E n \in DfRows :
             /\ run' = Attempted([run EXCEPT !.rows = n], 1, TRUE)
             /\ s3' = Uploaded(s3, [n |-> n, columns |-> StockColumns],
                               RawKey, "parquet")
       \/ /\ run' = Attempted(run, 1, FALSE)
          /\ s3' = s3
    /\ UNCHANGED <<now, lockVars, stage, dbVars, val>>

\* validate_stock_prices: the three validators are built with
\* strict_mode=False, so a result that does not pass does not stop the
\* task; the download or the quality-log inserts may raise
ValidateTask ==
    /\ Ready(2)
    /\ \/ /\ Downloadable(RawKey)
          /\ run' = Attempted(run, 2, TRUE)
       \/ run' = Attempted(run, 2, FALSE)
    /\ UNCHANGED <<now, lockVars, stage, dbVars, val, s3>>

\* transform_stock_prices: download, transformer.execute, then
\* upload_dataframe of the transformed dataset
TransformTask ==
    /\ Ready(3)
    /\ \/ /\ Downloadable(RawKey)
          /\ run' = Attempted(run, 3, TRUE)
          /\ s3' = Uploaded(s3, [n |-> run.rows,
                                  columns |-> TransformedColumns],
                            TransformedKey, "parquet")
       \/ /\ run' = Attempted(run, 3, FALSE)
          /\ s3' = s3
    /\ UNCHANGED <<now, lockVars, stage, dbVars, val>>

\* the pipeline run whose load stage is the task of the DAG run
DagProc == CHOOSE p \in Procs : \A q \in Procs : p <= q

\* the task instance of load_stock_prices starts: the download raises and
\* the attempt is over, or the task goes on to loader.execute(df,
\* table_name='analytics.daily_stock_analytics', if_exists='append',
\* use_lock=True), which first acquires the lock of the table
LoadTask ==
    /\ Ready(Len(Stages))
    /\ proc[DagProc].pc = "idle"
    /\ \/ /\ run' = Attempted(run, Len(Stages), FALSE)
          /\ proc' = proc
       \/ /\ Downloadable(TransformedKey)
          /\ CanWait(NoTimeout)
          /\ run' = [run EXCEPT !.state[Len(Stages)] = "running"]
          /\ \E t \in Tables :
                proc' = [proc EXCEPT ![DagProc] =
                    [EnterAcquire("load", LockNameOf(t), LoadToken(DagProc),
                                  TRUE, NoTimeout)
                       EXCEPT !.target = t, !.use_lock = TRUE,
                              !.rows = run.rows]]
    /\ UNCHANGED <<now, store, table, stage, dbVars, val, s3>>

\* the task instance of load_stock_prices ends: it returns loaded_count
\* after the run record, or the exception of loader.execute or of
\* db.log_etl_run leaves it (there is no try)
LoadTaskEnd ==
    LET r == proc[DagProc]
        began == IF r.acquired = "true" THEN 1 ELSE 0
        added == IF r.pc \in {"logged", "raised"} THEN r.ret ELSE 0 IN
    /\ run.state[Len(Stages)] = "running"
    /\ \/ r.pc \in {"logged", "raised"}
       \/ r.pc = "done" /\ r.exc # "none"
    /\ run' = Attempted([run EXCEPT !.writes = @ + began,
                                    !.written = @ + added],
                        Len(Stages), r.pc = "logged")
    /\ proc' = [proc EXCEPT ![DagProc] = IdleProc]
    /\ UNCHANGED <<now, store, table, stage, dbVars, val, s3>>

\* while the task of the DAG run is in its load stage, the loader of
\* another pipeline run takes the lock of the table (its SET NX EX) ...
OtherAcquire ==
    /\ run.state[Len(Stages)] = "running"
    /\ \E p \in Procs \ {DagProc}, t \in Tables :
          /\ SetIfAbsent(LockNameOf(t))
          /\ store' = [store EXCEPT ![LockNameOf(t)] =
                          [val |-> LoadToken(p), exp |-> LeaseExpiry]]
    /\ UNCHANGED <<now, table, proc, stageVars>>

\* ... and releases it (its compare-and-delete)
OtherRelease ==
    /\ \E p \in Procs \ {DagProc}, t \in Tables :
          /\ store[LockNameOf(t)].val = LoadToken(p)
          /\ store' = ReleaseStore(LockNameOf(t), LoadToken(p))
    /\ UNCHANGED <<now, table, proc, stageVars>>

\* time passes while the task is in its load stage
LoadTick ==
    /\ run.state[Len(Stages)] = "running"
    /\ Tick

(* --------------------------- specifications -------------------------- *)

\* pipeline runs that use a DistributedLock handle directly
LockStep(p) ==
    \/ CallAcquire(p)
    \/ CallRelease(p)
    \/ CallContext(p)
    \/ CallWith(p)
    \/ AcquireSet(p)
    \/ AcquireCheck(p)
    \/ AcquireWake(p)
    \/ BodyEnd(p)
    \/ ScopeExit(p)
    \/ Return(p)

Next == Tick \/ \E p \in Procs : LockStep(p)

Spec == Init /\ [][Next]_vars

\* runs that call acquire() and release() on their handles, when the clock
\* keeps advancing and every run that is inside acquire() keeps being
\* scheduled
LiveStep(p) ==
    \/ CallAcquire(p)
    \/ CallRelease(p)
    \/ AcquireSet(p)
    \/ AcquireCheck(p)
    \/ AcquireWake(p)
    \/ Return(p)

LiveNext == Tick \/ \E p \in Procs : LiveStep(p)

Fairness ==
    /\ WF_vars(Tick)
    /\ \A p \in Procs :
          WF_vars(AcquireSet(p) \/ AcquireCheck(p) \/ AcquireWake(p))

LiveSpec == Init /\ [][LiveNext]_vars /\ Fairness

\* pipeline runs that write to the warehouse through WarehouseLoader
LoadStep(p) ==
    \/ CallLoad(p)
    \/ CallUnlockedWrite(p)
    \/ CallTruncateAndLoad(p)
    \/ AcquireSet(p)
    \/ AcquireCheck(p)
    \/ AcquireWake(p)
    \/ ScopeExit(p)
    \/ TruncateEnd(p)
    \/ DbEnd(p)
    \/ Return(p)

LoadNext == Tick \/ \E p \in Procs : LoadStep(p)

LoadSpec == Init /\ [][LoadNext]_vars

\* pipeline runs that enter the lock through a scope: context() around a
\* body of their own, or WarehouseLoader.load around _perform_load
ScopeStep(p) ==
    \/ CallContext(p)
    \/ CallLoad(p)
    \/ AcquireSet(p)
    \/ AcquireCheck(p)
    \/ AcquireWake(p)
    \/ BodyEnd(p)
    \/ DbEnd(p)
    \/ ScopeExit(p)
    \/ Return(p)

ScopeNext == Tick \/ \E p \in Procs : ScopeStep(p)

ScopeSpec == Init /\ [][ScopeNext]_vars

\* one stage instance invoked repeatedly by its pipeline run
StageNext ==
    \/ Tick
    \/ StageCall
    \/ CoreReturn
    \/ CoreRaise
    \/ Post
    \/ UploadEnd

StageSpec == StageInit /\ [][StageNext]_vars

\* pipeline runs that write through DatabaseConnection.get_connection
DbStep(p) ==
    \/ CallBulkInsert(p)
    \/ CallUpsert(p)
    \/ CallExecuteUpdate(p)
    \/ SendPage(p)
    \/ SendStatement(p)
    \/ ConnExit(p)
    \/ SessReturn(p)

DbNext == \E p \in Procs : DbStep(p)

DbSpec == Init /\ [][DbNext]_vars

\* validator calls, one after the other
ValNext ==
    \/ ValidateCompleteness
    \/ ValidateExpected
    \/ ValidateAccuracy
    \/ ValidateConsistency
    \/ ValidateSchema
    \/ ValReturn

ValSpec == Init /\ [][ValNext]_vars

\* one run of the DAG under the Airflow scheduler
RunNext ==
    \/ RunTrigger
    \/ ExtractTask
    \/ ValidateTask
    \/ TransformTask
    \/ LoadTask
    \/ LoadTaskEnd
    \/ OtherAcquire
    \/ OtherRelease
    \/ LoadTick
    \/ AcquireSet(DagProc)
    \/ AcquireCheck(DagProc)
    \/ AcquireWake(DagProc)
    \/ DbEnd(DagProc)
    \/ ScopeExit(DagProc)
    \/ LogEtlRun(DagProc)

RunSpec == Init /\ [][RunNext]_vars

\* pipeline runs inside their load stage
LoadStageStep(p) ==
    \/ CallLoadStage(p)
    \/ AcquireSet(p)
    \/ AcquireCheck(p)
    \/ AcquireWake(p)
    \/ DbEnd(p)
    \/ ScopeExit(p)
    \/ LogEtlRun(p)
    \/ StageReturn(p)

LoadStageNext == Tick \/ \E p \in Procs : LoadStageStep(p)

LoadStageSpec == Init /\ [][LoadStageNext]_vars

\* the staging area
S3Next ==
    \/ UploadDataframe
    \/ DownloadDataframe
    \/ UploadJson
    \/ DeleteObject
    \/ S3Return

S3Spec == Init /\ [][S3Next]_vars

(* ============================ properties ============================== *)

Acquiring(r) == r.pc \in {"set", "check", "sleep"}

\* the instant at which the lease obtained by this call runs out
LeaseEnd(r) == r.acq_at + Lease

\* p's non-blocking acquire() has returned; it began while the key was absent
Raced(p) ==
    /\ proc[p].pc = "done" /\ proc[p].op = "acquire"
    /\ ~proc[p].blocking /\ proc[p].absent

Concurrent(p, q) ==
    /\ proc[p].acq_at - proc[q].acq_at < Lease
    /\ proc[q].acq_at - proc[p].acq_at < Lease

\* C1: when two handles with distinct owner tokens race with non-blocking
\* acquire() for a key that was absent when they began, their attempts
\* falling within one lease of each other, exactly one acquire returns
\* true; and a non-blocking acquire that returns false has made a single
\* SET attempt (it never reaches the timeout check or the sleep).
C1_ExactlyOneWins ==
    /\ \A p \in Procs, q \in Procs :
          (p # q /\ Raced(p) /\ Raced(q) /\ Concurrent(p, q)) =>
             /\ proc[p].token # proc[q].token
             /\ (proc[p].acquired = "true") # (proc[q].acquired = "true")
    /\ \A p \in Procs :
          /\ (proc[p].pc = "done" /\ proc[p].op = "acquire"
                /\ ~proc[p].blocking) => proc[p].tries = 1
          /\ (proc[p].pc \in {"check", "sleep"}) => proc[p].blocking

C1_Witness ==
    \E p \in Procs, q \in Procs :
       /\ p # q /\ Raced(p) /\ Raced(q) /\ Concurrent(p, q)
       /\ proc[p].acquired = "true" /\ proc[q].acquired = "false"
       /\ proc[q].tries = 1
       /\ store[HandleName].val = HandleToken(p)

\* p executes release() in this step: called directly, or by the
\* `finally:` of context() / by __exit__
Releases(p) ==
    \/ proc[p].pc = "idle" /\ proc'[p].op = "release"
    \/ proc[p].pc = "exit" /\ proc'[p].pc = "done"

\* C2: release() by a handle whose owner token differs from the value
\* stored under the key returns false and leaves the whole store (key,
\* token, expiry) unchanged; it deletes the key, and only that key, exactly
\* when the stored value equals the caller's token.
C2_ReleaseOnlyOwn ==
    [][\A p \in Procs :
          Releases(p) =>
             LET n == proc'[p].name
                 tok == proc'[p].token IN
             IF store[n].val = tok
             THEN /\ proc'[p].released = "true"
                  /\ store'[n].val = NoToken
                  /\ \A m \in LockNames \ {n} : store'[m] = store[m]
             ELSE /\ proc'[p].released = "false"
                  /\ store' = store]_vars

\* p acquired the key, its lease expired while it was in the scope, q
\* acquired the key, and p's release() at scope exit returned false: q's
\* token is still stored
C2_Witness ==
    \E p \in Procs, q \in Procs :
       /\ p # q
       /\ proc[p].pc = "done" /\ proc[p].op \in {"context", "with"}
       /\ proc[p].acquired = "true" /\ proc[p].released = "false"
       /\ store[HandleName].val = HandleToken(q)
       /\ store[HandleName].exp > now

\* p is inside _perform_load of a load() that took the default lock
LockedLoad(p) ==
    /\ proc[p].op = "load" /\ proc[p].pc = "db" /\ proc[p].use_lock
    /\ proc[p].name = LockNameOf(proc[p].target)

\* C3: two load() calls with use_lock on the same table_name and the
\* default lock name are never inside _perform_load at the same time,
\* unless one of the writes has outlasted its lease.
C3_LoadsExclusive ==
    \A p \in Procs, q \in Procs :
       (/\ p # q /\ LockedLoad(p) /\ LockedLoad(q)
        /\ proc[p].target = proc[q].target)
          => (now >= LeaseEnd(proc[p]) \/ now >= LeaseEnd(proc[q]))

\* one load is writing within its lease while the other has tried the
\* same lock, failed and waits
C3_Witness ==
    \E p \in Procs, q \in Procs :
       /\ p # q /\ LockedLoad(p) /\ now < LeaseEnd(proc[p])
       /\ proc[q].op = "load" /\ proc[q].pc = "sleep"
       /\ proc[q].name = proc[p].name /\ proc[q].target = proc[p].target

\* p is executing the database statements of a write that is meant to be
\* protected (every policy; a load only when use_lock was requested)
Writing(p) ==
    /\ proc[p].pc \in {"db", "trunc"}
    /\ proc[p].op = "load" => proc[p].use_lock

HoldsLock(p) ==
    /\ proc[p].token # NoToken
    /\ store[proc[p].name].val = proc[p].token

\* C4: whatever the policy (append, upsert, truncate_and_load), a writer
\* executes its database statements only while it holds the lock of its
\* target (or after its lease ran out under it).
C4_EveryPolicyHoldsLock ==
    \A p \in Procs :
       Writing(p) => (HoldsLock(p) \/ now >= LeaseEnd(proc[p]))

\* p is inside the body protected by a scoped acquisition
InScope(r) ==
    \/ r.pc = "body"
    \/ r.pc = "db" /\ r.op = "load" /\ r.use_lock

\* C5: when the body run inside context() ends, normally or by raising,
\* control passes to the `finally:` where release() runs before the scope
\* is left; after the scope the key does not hold this handle's token and
\* the body's exception (if any) is what the caller receives. The same
\* holds of WarehouseLoader.load, whose body is _perform_load.
C5_ScopeReleases ==
    /\ [][\A p \in Procs :
            LET r == proc[p]
                r2 == proc'[p] IN
            /\ (InScope(r) /\ r2 # r) => r2.pc = "exit"
            /\ (r.pc = "exit" /\ r2 # r) =>
                  /\ r2.pc = "done" /\ r2.exc = r.exc
                  /\ r2.released # "none"
                  /\ store'[r.name].val # r.token]_vars
    /\ [](\A p \in Procs :
            (proc[p].pc = "done" /\ proc[p].token # NoToken)
               => store[proc[p].name].val # proc[p].token)

\* a context() body and a _perform_load both raised; each scope released
\* the key it held and handed the exception on
C5_Witness ==
    \E p \in Procs, q \in Procs :
       /\ proc[p].pc = "done" /\ proc[p].op = "context"
       /\ proc[p].exc = "BodyError" /\ proc[p].released = "true"
       /\ proc[q].pc = "done" /\ proc[q].op = "load"
       /\ proc[q].exc = "DbError" /\ proc[q].released = "true"

\* C6: every scoped entry (context() and the with-statement form) is
\* acquire-or-raise: the protected body runs only if this handle's
\* acquire returned true.
C6_BodyOnlyIfAcquired ==
    \A p \in Procs : proc[p].pc = "body" => proc[p].acquired = "true"

\* C7: when load() with use_lock cannot acquire the lock it raises and
\* _perform_load is not called: the step in which acquire gives up ends the
\* call with RuntimeError and changes neither the target nor the store,
\* and release() is not called; _perform_load runs only after acquire
\* returned true.
C7_NoLockNoWrite ==
    /\ [][\A p \in Procs :
            (/\ proc[p].op = "load" /\ Acquiring(proc[p])
             /\ proc'[p].acquired = "false")
               => /\ proc'[p].pc = "done"
                  /\ proc'[p].exc = "RuntimeError"
                  /\ proc'[p].ret = 0 /\ proc'[p].released = "none"
                  /\ table' = table /\ store' = store]_vars
    /\ [](\A p \in Procs :
            (proc[p].op = "load" /\ proc[p].use_lock
               /\ proc[p].pc \in {"db", "exit"})
               => proc[p].acquired = "true")

\* a load() gave up with RuntimeError while the other writer, inside
\* _perform_load, still holds the key
C7_Witness ==
    \E p \in Procs, q \in Procs :
       /\ p # q
       /\ proc[p].pc = "done" /\ proc[p].op = "load"
       /\ proc[p].acquired = "false" /\ proc[p].exc = "RuntimeError"
       /\ LockedLoad(q) /\ proc[q].name = proc[p].name /\ HoldsLock(q)

\* C8: every blocking acquire() terminates: a run that is inside the retry
\* loop eventually leaves it (acquire returns true or false), whatever the
\* other handles do with the key meanwhile.
C8_AcquireTerminates ==
    \A p \in Procs : Acquiring(proc[p]) ~> ~Acquiring(proc[p])

\* a blocking acquire() has returned false after waiting and retrying
C8_Witness ==
    \E p \in Procs :
       /\ proc[p].pc = "done" /\ proc[p].op = "acquire" /\ proc[p].blocking
       /\ proc[p].acquired = "false" /\ proc[p].tries >= 2
       /\ Present(HandleName)

\* C9: a blocking acquire that fails an attempt sleeps the retry interval
\* while the elapsed wait is below the timeout, and returns false (without
\* raising) at the first failed attempt at which the elapsed wait has
\* reached the timeout - the lease duration when the caller supplies none,
\* else the value the caller supplied.
C9_ReturnsAtTimeout ==
    [][\A p \in Procs :
          LET r == proc[p]
              r2 == proc'[p]
              tmo == IF r.timeout = NoTimeout THEN Lease ELSE r.timeout IN
          (r.pc = "check" /\ r2 # r) =>
             IF now - r.start_time >= tmo
             THEN /\ r2.acquired = "false"
                  /\ r.op = "acquire" => (r2.pc = "done" /\ r2.exc = "none")
             ELSE /\ r2.pc = "sleep" /\ r2.acquired = "none"
                  /\ r2.wake = now + RetryInterval]_vars

\* C10: if the core operation of a stage (extractor, transformer, loader)
\* raises, the wrapper does not suppress it: start_time was stamped by the
\* pre hook of this invocation, the post hook does not run for it (end_time
\* and the count keep the values they had), and the exception the caller
\* receives is the one the core raised.
C10_CoreFailurePropagates ==
    /\ [][(stage.pc = "core" /\ stage'.thrown # "none") =>
             /\ stage'.pc = "done"
             /\ stage'.end_time = stage.end_time
             /\ stage'.count = stage.count
             /\ stage'.start_time = stage.start_time]_vars
    /\ [](stage.thrown # "none" =>
             /\ stage.pc = "done"
             /\ stage.exc = stage.thrown
             /\ stage.start_time # NoTime
             /\ stage.start_inv = stage.inv
             /\ stage.end_inv # stage.inv)

\* a second invocation failed in its core after the clock moved on: the
\* exception is out, start_time is this invocation's, end_time and the
\* count are still those of the first invocation
C10_Witness ==
    /\ stage.pc = "done" /\ stage.thrown \in CoreErrors
    /\ stage.exc = stage.thrown
    /\ stage.inv = 2 /\ stage.start_inv = 2 /\ stage.end_inv = 1
    /\ stage.start_time > stage.end_time

\* the rows of a sequence of pages, in the order sent
RECURSIVE Flatten(_)
Flatten(pages) ==
    IF pages = <<>> THEN <<>> ELSE Head(pages) \o Flatten(Tail(pages))

\* C11: an append of an n-row dataset in batches of batch_size issues
\* batches that together cover every row exactly once, none lost and none
\* duplicated, and returns rows_affected = n.
C11_AppendCoversAndCounts ==
    \A p \in Procs :
       LET s == sess[p] IN
       (s.pc = "done" /\ s.op = "bulk_insert" /\ s.exc = "none") =>
          /\ Flatten(s.pages) = DataOf(s.rows)
          /\ \A i \in 1..Len(s.pages) :
                Len(s.pages[i]) \in 1..s.batch_size
          /\ s.ret = s.rows

\* C12: an upsert called with an empty conflict_columns list is rejected
\* with a configuration error before any connection is checked out and
\* before any statement is sent to the database.
C12_EmptyConflictRejected ==
    \A p \in Procs :
       LET s == sess[p] IN
       (s.op = "upsert" /\ s.cc = {}) =>
          /\ s.pc = "done"
          /\ s.exc = "ConfigurationError"
          /\ s.conn = NoConn
          /\ s.pages = <<>>

\* C13: a connection checked out through get_connection serves one
\* operation and is given back on every path: commit() is called exactly
\* when the body ended without an exception, any exception leads to a
\* rollback and reaches the caller, the connection is closed once whatever
\* happened, and the relation changes only by a commit.
C13_ConnectionReturned ==
    /\ [](\A p \in Procs :
            LET s == sess[p] IN
            (s.pc = "done" /\ s.conn # NoConn) =>
               /\ s.closes = 1
               /\ (s.commits = 1) <=> (s.body_exc = "none")
               /\ (s.rollbacks = 1) <=> (s.exc # "none")
               /\ s.body_exc # "none" => s.exc = s.body_exc
               /\ s.committed <=> (s.exc = "none")
               /\ s.commits <= 1 /\ s.rollbacks <= 1)
    /\ [](\A p, q \in Procs :
            (p # q /\ sess[p].pc = "body" /\ sess[q].pc = "body") =>
               sess[p].conn # sess[q].conn)
    /\ [][rel' # rel =>
             \E p \in Procs :
                /\ sess[p].pc = "body" /\ sess[p].body_exc = "none"
                /\ sess'[p].committed
                /\ rel' = (rel \cup sess[p].pending)
                              \ sess[p].deleted]_vars

\* one run's second page failed after its first had written a row: it was
\* rolled back and closed, the error is out and its row is not in the
\* relation; the other run committed its own row on another connection
C13_Witness ==
    \E p, q \in Procs :
       /\ p # q
       /\ sess[p].pc = "done" /\ sess[p].body_exc = "DbError"
       /\ Len(sess[p].pages) = 2 /\ sess[p].pending # {}
       /\ sess[p].rollbacks = 1 /\ sess[p].closes = 1
       /\ sess[p].exc = "DbError"
       /\ sess[q].pc = "done" /\ sess[q].committed
       /\ sess[q].commits = 1 /\ sess[q].closes = 1
       /\ sess[q].conn # sess[p].conn
       /\ sess[q].pending # {} /\ sess[q].pending \subseteq rel
       /\ sess[p].pending \cap rel = {}

\* a validator call that constructed a ValidationResult
Produced == val.pc = "done" /\ val.events[1] = "result"

\* the positions of the entries of one check in error_details
EntriesOf(check) ==
    {i \in DOMAIN val.result.error_details :
        val.result.error_details[i].check = check}

\* C14: every ValidationResult a validator operation produces (completeness
\* validate, validate_expected_records, accuracy, consistency and schema
\* validate), for every dataset and ruleset, has passed = (error_details is
\* empty).
C14_PassedIffNoErrors ==
    Produced =>
       (val.result.passed <=> (Len(val.result.error_details) = 0))

\* a completeness result in which the row-count, the required-column and
\* the null-threshold check all failed
C14_Witness ==
    /\ Produced /\ val.op = "completeness"
    /\ ~val.result.passed
    /\ Len(val.result.error_details) = 3

\* C15: strict mode is the only thing that makes a validator raise: with
\* strict_mode a non-passing result raises, after the result was computed
\* and logged; without strict_mode the call always returns the result and
\* never raises, whatever the dataset and the ruleset.
C15_OnlyStrictRaises ==
    val.pc = "done" =>
       /\ (val.strict /\ Produced /\ ~val.result.passed) =>
              /\ val.exc = "ValueError"
              /\ val.events = <<"result", "log", "raise">>
       /\ ~val.strict =>
              /\ val.exc = "none"
              /\ val.events = <<"result", "log", "return">>

\* the dataset {a: [1, 1], b: [1, 1]}
TwoColumnFrame ==
    [n |-> 2,
     c |-> [col \in {"a", "b"} |->
               [dtype |-> "float64", vals |-> <<1, 1>>]]]

\* C18: completeness validate is non-passing exactly when some required
\* column is absent or another of its checks fails; when a required column
\* is absent it records one entry whose missing_columns is exactly the set
\* of required columns minus the dataset's columns. Required {a, b, c} on a
\* dataset with columns {a, b} lists {c}.
C18_MissingColumnsListed ==
    /\ (Produced /\ val.op = "completeness") =>
          LET errs == val.result.error_details
              missing == val.args.required_columns \ DOMAIN val.df.c
              entries == EntriesOf("required_columns") IN
          /\ missing # {} =>
                /\ ~val.result.passed
                /\ Cardinality(entries) = 1
                /\ \A i \in entries : errs[i].missing_columns = missing
          /\ missing = {} => entries = {}
          /\ ~val.result.passed <=>
                \/ missing # {}
                \/ EntriesOf("min_row_count") # {}
                \/ EntriesOf("null_threshold") # {}
    /\ LET r == CompletenessValidate(TwoColumnFrame, {"a", "b", "c"},
                                     0, 1).result IN
       /\ ~r.passed
       /\ r.error_details = <<[check |-> "required_columns",
                               missing_columns |-> {"c"}]>>

\* required {a, b, c} on a two-row dataset with the columns a and b
C18_Witness ==
    /\ Produced /\ val.op = "completeness"
    /\ val.args.required_columns = {"a", "b", "c"}
    /\ DOMAIN val.df.c = {"a", "b"} /\ val.df.n = 2
    /\ ~val.result.passed
    /\ \E i \in EntriesOf("required_columns") :
          val.result.error_details[i].missing_columns = {"c"}

\* the number of nulls of a column of the dataset of the call
NullsIn(col) ==
    Cardinality({i \in 1..val.df.n : val.df.c[col].vals[i] = Null})

\* C19: completeness validate is non-passing whenever the null percentage
\* (null_count / row_count * 100) of some column exceeds null_threshold;
\* all the violating columns are reported together in one null_threshold
\* entry, and a column at or below the threshold is not reported.
C19_NullThresholdAggregated ==
    (Produced /\ val.op = "completeness") =>
       LET errs == val.result.error_details
           over == {col \in DOMAIN val.df.c :
                      /\ val.df.n > 0
                      /\ NullsIn(col) * 100
                            > val.args.null_threshold * val.df.n}
           entries == EntriesOf("null_threshold") IN
       /\ over # {} =>
             /\ ~val.result.passed
             /\ Cardinality(entries) = 1
             /\ \A i \in entries : DOMAIN errs[i].violations = over
       /\ over = {} => entries = {}

\* the dataset {price: [150, 500, 180]}
PriceFrame ==
    [n |-> 3,
     c |-> [col \in {"price"} |->
               [dtype |-> "float64", vals |-> <<150, 500, 180>>]]]

\* C20: accuracy validate with value_ranges records, for each ranged column
\* the dataset has, a violation count equal to the number of rows whose
\* value is below min or above max (the bounds are inside the range), with
\* one entry per column that has a violation and none for the others; the
\* result is non-passing whenever there is such an entry. price =
\* [150, 500, 180] with range (0, 300) gives one violation and
\* passed = false.
C20_RangeViolationsCounted ==
    /\ (Produced /\ val.op = "accuracy") =>
          LET errs == val.result.error_details
              vr == val.args.value_ranges
              entries == EntriesOf("value_range")
              present == {k \in DOMAIN vr : vr[k].column \in DOMAIN val.df.c}
              Count(r) ==
                 Cardinality({i \in 1..val.df.n :
                    LET v == val.df.c[r.column].vals[i] IN
                    v # Null /\ (v < r.min \/ v > r.max)})
              For(r) == {i \in entries : errs[i].column = r.column} IN
          /\ \A k \in present :
                IF Count(vr[k]) > 0
                THEN /\ Cardinality(For(vr[k])) = 1
                     /\ \A i \in For(vr[k]) :
                           errs[i].violations = Count(vr[k])
                ELSE For(vr[k]) = {}
          /\ \A i \in entries :
                \E k \in present : errs[i].column = vr[k].column
          /\ entries # {} => ~val.result.passed
    /\ LET r == AccuracyValidate(PriceFrame,
                                 <<RangeRule("price", <<0, 300>>)>>,
                                 <<>>, <<>>, <<>>).result IN
       /\ ~r.passed
       /\ Len(r.error_details) = 1
       /\ r.error_details[1].column = "price"
       /\ r.error_details[1].violations = 1

\* both columns are ranged: a = [1, 2] with range (1, 1) has one value
\* above max and one on the bounds, b = [0, 2] with range (0, 2) lies on
\* the bounds; one entry, for a, with one violation
C20_Witness ==
    /\ Produced /\ val.op = "accuracy"
    /\ val.args.value_ranges =
          <<RangeRule("a", <<1, 1>>), RangeRule("b", <<0, 2>>)>>
    /\ DOMAIN val.df.c = {"a", "b"} /\ val.df.n = 2
    /\ val.df.c["a"].vals = <<1, 2>> /\ val.df.c["b"].vals = <<0, 2>>
    /\ ~val.result.passed
    /\ Cardinality(EntriesOf("value_range")) = 1
    /\ \A i \in EntriesOf("value_range") :
          /\ val.result.error_details[i].column = "a"
          /\ val.result.error_details[i].violations = 1

\* some attempt of task i has raised
Raised(i) ==
    run.tries[i] > (IF run.state[i] = "success" THEN 1 ELSE 0)

\* an attempt of a task starts or ends only when every task before it
\* has succeeded and no task after it has been attempted
InOrder ==
    \A i \in DOMAIN Stages :
       (\/ run'.tries[i] > run.tries[i]
        \/ run'.state[i] = "running" /\ run.state[i] # "running") =>
          /\ \A j \in 1..(i - 1) : run.state[j] = "success"
          /\ \A j \in (i + 1)..Len(Stages) : run.tries[j] = 0

\* the load task of the run has not begun a warehouse write
NoWrite ==
    /\ run.writes = 0
    /\ proc[DagProc].pc = "idle"
    /\ run.state[Len(Stages)] # "running"

\* C16 as stated: in one pipeline run the stages execute in the order
\* extract, validate, transform, load, each starting only after the stage
\* before it completed without raising; a stage that raises aborts the
\* remainder of the run: no later stage, and no warehouse write, executes.
C16_RaiseAbortsRun ==
    /\ [][InOrder]_vars
    /\ [](\A i \in DOMAIN Stages :
            Raised(i) =>
               /\ \A j \in (i + 1)..Len(Stages) : run.tries[j] = 0
               /\ i < Len(Stages) => NoWrite)

\* C16 amended: the stages execute in the order extract, validate,
\* transform, load, each attempted only after the stage before it has
\* succeeded; a stage whose attempt raises is retried up to 3 times, and a
\* stage that raised on all of its 4 attempts has failed and ends the run:
\* no later stage, and no warehouse write, executes.
C16_FailureAbortsRun ==
    /\ [][InOrder]_vars
    /\ [](\A i \in DOMAIN Stages :
            /\ run.tries[i] <= Retries + 1
            /\ run.state[i] = "up_for_retry" => run.tries[i] <= Retries
            /\ run.state[i] = "failed" =>
                  /\ run.tries[i] = Retries + 1
                  /\ run.pc = "done"
                  /\ \A j \in (i + 1)..Len(Stages) :
                        run.tries[j] = 0 /\ run.state[j] = "upstream_failed"
                  /\ i < Len(Stages) => NoWrite
            /\ (run.tries[i] > 0 \/ run.state[i] = "running") =>
                  \A j \in 1..(i - 1) : run.state[j] = "success")

\* extract succeeded at its second attempt, transform raised four times
\* and has failed: load was never attempted, nothing was written
C16_Witness ==
    /\ run.pc = "done"
    /\ run.state = <<"success", "success", "failed", "upstream_failed">>
    /\ run.tries = <<2, 1, 4, 0>>
    /\ NoWrite /\ run.log = <<>> /\ table = [t \in Tables |-> 0]

\* C17: every invocation of the load stage appends exactly one row to the
\* run log: a successful write is logged with its status and loaded
\* count, a write that raises is logged with a failure status before the
\* exception leaves the stage.
C17_EveryLoadLogged ==
    [][run'.tries[Len(Stages)] > run.tries[Len(Stages)] =>
          /\ proc[DagProc].pc = "logged"
          /\ Len(run.log) > 0
          /\ run'.state[Len(Stages)] = "success" =>
                /\ run.log[Len(run.log)].status = "SUCCESS"
                /\ run.log[Len(run.log)].records_loaded
                      = proc[DagProc].ret
          /\ run'.state[Len(Stages)] # "success" =>
                run.log[Len(run.log)].status = "FAILED"]_vars

\* the dataset {id: [1, 2, 2, 3]}
IdFrame ==
    [n |-> 4,
     c |-> [col \in {"id"} |->
               [dtype |-> "int64", vals |-> <<1, 2, 2, 3>>]]]

\* the rows of a column beyond the first occurrence of their value
Repeats(vals) == Len(vals) - Cardinality({vals[i] : i \in DOMAIN vals})

\* C21: consistency validate with unique_columns reports, for each
\* designated column the dataset has, a duplicate count equal to the
\* number of rows whose value already occurred in an earlier row (the
\* first occurrence is not counted), adds that count to failed_records and
\* is non-passing whenever the count is positive; id = [1, 2, 2, 3] gives
\* duplicate count 1 and passed = false.
C21_DuplicatesCounted ==
    /\ (Produced /\ val.op = "consistency") =>
          LET errs == val.result.error_details
              uq == val.args.unique_columns
              entries == EntriesOf("uniqueness")
              present == {k \in DOMAIN uq : uq[k] \in DOMAIN val.df.c}
              Count(k) == Repeats(val.df.c[uq[k]].vals)
              For(k) == {i \in entries : errs[i].column = uq[k]}
              alone == /\ val.args.data_types = <<>>
                       /\ val.args.date_formats = <<>>
                       /\ val.args.cross_field_rules = <<>> IN
          /\ \A k \in present :
                IF Count(k) > 0
                THEN /\ Cardinality(For(k)) = 1
                     /\ \A i \in For(k) : errs[i].duplicates = Count(k)
                     /\ ~val.result.passed
                     /\ val.result.failed_records >= Count(k)
                ELSE For(k) = {}
          /\ \A i \in entries : \E k \in present : errs[i].column = uq[k]
          /\ alone =>
                /\ val.result.failed_records
                      = SumOver([k \in present |-> Count(k)], present)
                /\ val.result.passed_records
                      = SumOver([k \in present |-> val.df.n - Count(k)],
                                present)
    /\ LET r == ConsistencyValidate(IdFrame, <<>>, <<"id">>, <<>>,
                                    <<>>).result IN
       /\ ~r.passed
       /\ Len(r.error_details) = 1
       /\ r.error_details[1].check = "uniqueness"
       /\ r.error_details[1].duplicates = 1
       /\ r.failed_records = 1
       /\ r.passed_records = 3

\* unique_columns = [a, b] alone: a = [1, 1] repeats one value, b = [0, 2]
\* is unique; one entry, for a, with one duplicate, one failed record and
\* three passed
C21_Witness ==
    /\ Produced /\ val.op = "consistency"
    /\ val.args.unique_columns = <<"a", "b">>
    /\ val.args.data_types = <<>> /\ val.args.date_formats = <<>>
    /\ val.args.cross_field_rules = <<>>
    /\ val.df.n = 2 /\ DOMAIN val.df.c = {"a", "b"}
    /\ val.df.c["a"].vals = <<1, 1>> /\ val.df.c["b"].vals = <<0, 2>>
    /\ Len(val.result.error_details) = 1
    /\ val.result.error_details[1].duplicates = 1
    /\ val.result.failed_records = 1 /\ val.result.passed_records = 3
    /\ ~val.result.passed

\* the dtypes of each type family
IntegerDtypes ==
    {"int8", "int16", "int32", "int64",
     "uint8", "uint16", "uint32", "uint64",
     "Int8", "Int16", "Int32", "Int64",
     "UInt8", "UInt16", "UInt32", "UInt64"}

FloatDtypes == {"float16", "float32", "float64", "Float32", "Float64"}

StringDtypes == {"object", "string"}

BoolDtypes == {"bool", "boolean"}

DatetimeDtypes == {"datetime64[ns]", "datetime64[ns, UTC]"}

\* the family a declared type names
Family(type) ==
    CASE type = "int" -> IntegerDtypes
      [] type \in {"float", "Float"} -> FloatDtypes
      [] type = "string" -> StringDtypes
      [] type = "bool" -> BoolDtypes
      [] type = "datetime" -> DatetimeDtypes

\* C22: schema type compatibility is decided by type family: a declared
\* type "int" accepts every concrete integer representation a column can
\* have (signed and unsigned, every width, nullable integer types) and
\* rejects every non-integer representation; likewise for the float,
\* string, bool and datetime families.
C22_TypeFamilies ==
    (Produced /\ val.op = "schema") =>
       LET errs == val.result.error_details
           sc == val.args.expected_schema
           entries == EntriesOf("data_type") IN
       \A k \in DOMAIN sc :
          (/\ sc[k].column \in DOMAIN val.df.c
           /\ sc[k].type \in {"int", "float", "Float", "string", "bool",
                               "datetime"}) =>
             ((\A i \in entries : errs[i].column # sc[k].column)
                 <=> val.df.c[sc[k].column].dtype \in Family(sc[k].type))

\* C30: every ValidationResult produced by the completeness, accuracy,
\* consistency and schema validators (and by validate_expected_records)
\* has passed_records + failed_records = total_records, for every dataset
\* and ruleset, including rows flagged by several checks and rules naming
\* columns the dataset lacks.
C30_RecordsAddUp ==
    Produced =>
       val.result.passed_records + val.result.failed_records
          = val.result.total_records

\* an accuracy call whose range, categorical and pattern rules all flag
\* the same rows: more failed records than the dataset has rows
C30_Witness ==
    /\ Produced /\ val.op = "accuracy"
    /\ Len(val.result.error_details) = 3
    /\ val.df.n = 2
    /\ val.result.failed_records = 6
    /\ val.result.passed_records = 0
    /\ val.result.total_records = 6

\* C23: staging round-trip: a dataset written to staging under a staging
\* key and then read back under that same staging key yields a dataset
\* with the same row count and the same column set as the original, for
\* every supported format.
C23_RoundTrip ==
    (/\ s3.call.pc = "done" /\ s3.call.op = "download"
     /\ s3.call.key \in DOMAIN s3.uploads
     /\ s3.call.format = s3.uploads[s3.call.key].format) =>
       /\ s3.call.exc = "none"
       /\ s3.call.df.n = s3.uploads[s3.call.key].df.n
       /\ s3.call.df.columns = s3.uploads[s3.call.key].df.columns

\* C24: there is no lease renewal: the expiry of a stored token is never
\* moved, so when a holder's protected write runs longer than the lease
\* the key expires and another handle's acquire on the same name can
\* succeed; both writes then run at the same time, the first holder is
\* told nothing (its write ends the way the write itself ends), and its
\* later release returns false and leaves the store, hence the second
\* holder's key, as it is.
C24_NoLeaseRenewal ==
    /\ [][\A n \in LockNames :
            (store[n].val # NoToken /\ store'[n].val = store[n].val)
               => store'[n].exp = store[n].exp]_vars
    /\ [][\A p \in Procs :
            (LockedLoad(p) /\ proc'[p] # proc[p]) =>
               /\ proc'[p].pc = "exit"
               /\ proc'[p].exc \in {"none", "DbError"}
               /\ proc'[p].exc = "none" => proc'[p].ret = proc[p].rows
               /\ store' = store]_vars
    /\ [][\A p \in Procs :
            (/\ proc[p].pc = "exit" /\ proc'[p] # proc[p]
             /\ store[proc[p].name].val # proc[p].token) =>
               /\ proc'[p].pc = "done"
               /\ proc'[p].released = "false"
               /\ proc'[p].exc = proc[p].exc
               /\ store' = store]_vars

\* p's write has outlasted its lease and the key now holds q's token: both
\* are inside _perform_load for the same target
C24_Witness ==
    \E p \in Procs, q \in Procs :
       /\ p # q /\ LockedLoad(p) /\ LockedLoad(q)
       /\ proc[p].target = proc[q].target
       /\ now >= LeaseEnd(proc[p])
       /\ HoldsLock(q) /\ store[proc[q].name].exp > now
       /\ proc[p].exc = "none" /\ proc[q].exc = "none"

\* C27: the lock is not re-entrant: while a handle's own token is stored
\* under the key, a further acquire by that handle fails as a
\* competitor's would: the SET leaves the stored token and the remaining
\* lease as they are, a non-blocking acquire returns false after that one
\* attempt, a blocking one goes on to the timeout check and waits.
C27_NotReentrant ==
    [][\A p \in Procs :
          LET r == proc[p]
              r2 == proc'[p] IN
          (/\ r.pc = "set" /\ r2 # r
           /\ store[r.name].val = r.token) =>
             /\ store' = store
             /\ r2.tries = r.tries + 1
             /\ IF r.blocking
                THEN r2.pc = "check" /\ r2.acquired = "none"
                ELSE r2.acquired = "false"
                     /\ (r.op = "acquire" =>
                            r2.pc = "done" /\ r2.exc = "none")]_vars

\* a handle whose token is stored, with lease left, called acquire again
\* without blocking and got false after one attempt
C27_Witness ==
    \E p \in Procs :
       /\ proc[p].pc = "done" /\ proc[p].op = "acquire"
       /\ ~proc[p].blocking /\ proc[p].acquired = "false"
       /\ proc[p].tries = 1
       /\ store[HandleName].val = HandleToken(p)
       /\ store[HandleName].exp > now

\* C28: a supplied acquisition timeout is honoured for every value
\* t >= 0, t = 0 included: a blocking acquire that does not win the key
\* returns false at the first failed attempt at which the elapsed wait is
\* at least t, so with t = 0 it returns false after a single attempt
\* instead of waiting for the lease duration.
C28_SuppliedTimeoutHonoured ==
    /\ [][\A p \in Procs :
            LET r == proc[p]
                r2 == proc'[p] IN
            (/\ r.pc = "check" /\ r2 # r
             /\ r.timeout # NoTimeout
             /\ now - r.start_time >= r.timeout) =>
               /\ r2.acquired = "false"
               /\ r2.pc # "sleep"]_vars
    /\ [](\A p \in Procs :
            (/\ proc[p].blocking /\ proc[p].timeout = 0
             /\ proc[p].acquired = "false") => proc[p].tries = 1)

\* C25: truncate_and_load is not atomic across its two steps: the
\* truncate is committed on its own connection before the load begins
\* (the target is empty from then on, for every reader), so when the load
\* step then fails the target keeps what it holds, the earlier contents
\* are not restored, and the failure is what the caller receives.
C25_TruncateNotAtomic ==
    [][\A p \in Procs :
          LET r == proc[p]
              r2 == proc'[p] IN
          (r.op = "truncate_and_load" /\ r2 # r) =>
             /\ (r.pc = "trunc" /\ r2.exc = "none") =>
                   r2.pc = "db" /\ table'[r.target] = 0
             /\ (r.pc = "trunc" /\ r2.exc # "none") =>
                   r2.pc = "done" /\ table' = table
             /\ (r.pc = "db" /\ r2.exc # "none") =>
                   /\ r2.pc = "done" /\ r2.exc = "DbError" /\ r2.ret = 0
                   /\ table' = table
             /\ (r.pc = "db" /\ r2.exc = "none") =>
                   /\ r2.pc = "done" /\ r2.ret = r.rows
                   /\ table'[r.target] = table[r.target] + r.rows]_vars

\* q's append had put rows into the target; p's truncate_and_load removed
\* them, its load step failed: the caller of p has the error and the
\* target is empty
C25_Witness ==
    \E p \in Procs, q \in Procs :
       /\ p # q
       /\ proc[p].pc = "done" /\ proc[p].op = "truncate_and_load"
       /\ proc[p].exc = "DbError"
       /\ proc[q].pc = "done" /\ proc[q].op = "load"
       /\ proc[q].exc = "none" /\ proc[q].ret >= 1
       /\ proc[q].target = proc[p].target
       /\ table[proc[p].target] = 0

\* C29: after any sequence of execute calls on one stage instance (calls
\* whose core operation raised included), whenever both start_time and
\* end_time are set they were stamped by the same invocation and
\* end_time >= start_time; the recorded count likewise belongs to the
\* invocation that stamped start_time.
C29_TimesOfOneInvocation ==
    (/\ stage.pc \in {"idle", "done"}
     /\ stage.start_time # NoTime /\ stage.end_time # NoTime) =>
       /\ stage.start_inv = stage.end_inv
       /\ stage.end_time >= stage.start_time

\* C26: within one load-stage invocation the events occur in the order
\* lock acquired, write performed, lock released, run record emitted: the
\* write runs only after the acquire returned true and before the
\* release, the run record is emitted only after the release (the key no
\* longer holds the invocation's token), and the records_loaded it
\* carries is the count the write returned.
C26_LoadStageOrder ==
    /\ [](\A p \in Procs :
            /\ proc[p].pc = "db" =>
                  proc[p].acquired = "true" /\ proc[p].released = "none"
            /\ proc[p].pc = "logged" =>
                  /\ proc[p].acquired = "true"
                  /\ proc[p].released # "none"
                  /\ proc[p].exc = "none")
    /\ [][\A p \in Procs :
            LET r == proc[p]
                r2 == proc'[p] IN
            r2 # r =>
               /\ r2.pc = "db" => r.pc = "set"
               /\ r2.pc = "exit" => r.pc = "db"
               /\ (r2.pc = "done" /\ r2.acquired = "true") =>
                     r.pc = "exit"
               /\ r2.pc = "logged" => r.pc = "done"]_vars
    /\ [][run'.log # run.log =>
            \E p \in Procs :
               /\ proc[p].pc = "done" /\ proc'[p].pc = "logged"
               /\ proc[p].released # "none"
               /\ store[proc[p].name].val # proc[p].token
               /\ run'.log = Append(run.log,
                                [status |-> "SUCCESS",
                                 records_loaded |-> proc[p].ret])
               /\ proc[p].ret = proc[p].rows]_vars

\* an invocation has acquired the lock, written its rows, released the
\* lock and emitted its run record with the count of the write
C26_Witness ==
    \E p \in Procs :
       /\ proc[p].pc = "logged" /\ proc[p].released = "true"
       /\ proc[p].ret = proc[p].rows /\ proc[p].ret >= 1
       /\ Len(run.log) = 1
       /\ run.log[1].records_loaded = proc[p].ret
       /\ table[proc[p].target] = proc[p].ret
       /\ ~Present(proc[p].name)

====
